---- MODULE Spec2Model ----
(***************************************************************************)
(* Session-aware tool-calling agent core of the beyondworks assistant:     *)
(* the file-backed session store (core/session.py), the pending-action     *)
(* resolution bridge and the request entry point (assistant.py,            *)
(* server.py), the rule memory (core/memory.py) and the multi-round tool   *)
(* loop (core/openai_client.py).                                           *)
(*                                                                         *)
(* Strings are records [txt, len]: the first len characters of the text    *)
(* named by the token sequence txt, so that slicing (s[:500]) and          *)
(* character replacement are computed, not assumed.  A Python None or a    *)
(* missing value is the empty sequence << >>, a present value v is <<v>>.  *)
(***************************************************************************)
EXTENDS Integers, Sequences, FiniteSets, TLC

VARIABLES
    store,      \* data/sessions/<safe_name>.json: path -> file
    now,        \* datetime.now(), in minutes
    appended,   \* number of update_session calls made so far
    last,       \* the request being served: its inputs, the store it found (pre)
                \* and what it returned; op = "none" between requests
    window,     \* the update_session calls made by SpecWindow, and whether one of
                \* them found the stored session expired
    race,       \* SpecRace: each process's position and local variables, the
                \* executor calls made, and counts of pending actions stored and
                \* of non-null get_and_clear_pending_action returns
    loop,       \* SpecLoop: data/memory.json and the variables of the running
                \* chat_with_tools_multi call
    call,       \* the latest call of a function that keeps no state of its own
                \* (FallbackProvider.chat, classify_domain, add_rule): its
                \* arguments, the calls it made and what it returned
    writers,    \* SpecWriters: the processes calling core/memory.py at the same
                \* time, each with the document it loaded, and the rules added
    shown       \* SpecButtons: the choice requests the chat surface has shown
                \* the user so far, each with its options and its pending action

vars == <<store, now, appended, last, window, race, loop, call, writers, shown>>

----------------------------------------------------------------------------
(* Bounds of the model *)

MaxTime == 3        \* the clock runs from 0 to MaxTime
MaxTtl == 2         \* ttl_minutes ranges over MinTtl..MaxTtl
MaxAppends == 2     \* update_session calls explored by Spec and SpecStore
MaxCalls == 11      \* update_session calls explored by SpecWindow
MaxRequests == 3    \* requests started in SpecRace
MaxRounds == 2      \* max_tool_rounds ranges over 0..MaxRounds
MaxAdds == 55       \* add_rule calls with a new text in SpecRules
MaxRepeats == 2     \* add_rule calls with a text used before in SpecRules
MaxUses == 2        \* used_count ranges over 0..MaxUses in SpecPrompt
MaxRuleCalls == 3   \* calls of core/memory.py started in SpecWriters

(* Program constants *)

MAX_MESSAGES == 20
MaxAssistantLen == 500
MinTtl == 1
MAX_RULES_PER_DOMAIN == 50
MaxOptions == 5

----------------------------------------------------------------------------
(* Strings *)

Str(t, n) == [txt |-> t, len |-> n]

EmptyStr == Str(<< >>, 0)

Min(a, b) == IF a < b THEN a ELSE b

Max(a, b) == IF a < b THEN b ELSE a

\* a variant that keeps the whole text
WholeText(s, n) == s

\* s[:n]
Prefix(s, n) == IF s.len <= n THEN s ELSE [s EXCEPT !.len = n]

\* lst[-n:]
LastN(lst, n) == SubSeq(lst, Max(1, Len(lst) - n + 1), Len(lst))

\* str.replace("/", "_") on a token sequence
ReplaceSlash(toks) == [i \in 1..Len(toks) |-> IF toks[i] = "/" THEN "_" ELSE toks[i]]

None == << >>

Some(v) == <<v>>

----------------------------------------------------------------------------
(* Inputs *)

TTLs == MinTtl..MaxTtl

\* (user_id, channel_id, session_scope)
Key(u, c, s) == [user |-> u, channel |-> c, scope |-> s]

K1 == Key(<<"U1">>, <<"C1">>, <<"default">>)
KD == Key(<<"default">>, <<"C1">>, <<"default">>)

Keys == {K1, KD}

\* the program writes no session for the user "default" (assistant.py lines 222, 241)
SessionKeys == {K1}

Fields == {"title", "day"}

AbsentVal == Str(<<"<absent>">>, 0)

\* a Python dict over Fields: a total function, AbsentVal for a missing key
Dict(title, day) == [f \in Fields |-> IF f = "title" THEN title ELSE day]

PA1 == [tool |-> <<"book">>, args |-> Dict(Str(<<"meeting">>, 7), AbsentVal),
        field_name |-> "day"]
PA2 == [tool |-> <<"functions.", "book">>,
        args |-> Dict(AbsentVal, Str(<<"tue">>, 3)), field_name |-> "day"]

PendingActions == {PA1, PA2}

Values == {Str(<<"mon">>, 3)}

Hello == Str(<<"hello">>, 5)

UserMessages == {Hello}

\* a user message longer than the longest assistant message kept
LongAsk == Str(<<"long question">>, MaxAssistantLen + 100)

RShort == Str(<<"done">>, 4)
RLong == Str(<<"report">>, MaxAssistantLen + 1)

Responses == {RShort, RLong}

DomainsWithHandler ==
    {"schedule", "content", "finance", "travel", "tools", "business", "workspace"}

\* domain arguments explored by the model
DomainArgs == {"finance", "nowhere"}

\* domains passed to update_session directly
StoredDomains == {"finance", "nowhere"}

----------------------------------------------------------------------------
(* core/session.py *)

ScopeOrDefault(scope) == IF scope = << >> THEN <<"default">> ELSE scope

_session_path(user_id, channel_id, session_scope) ==
    LET safe_scope == ReplaceSlash(ScopeOrDefault(session_scope))
    IN  ReplaceSlash(safe_scope \o <<"_">> \o user_id \o <<"_">> \o channel_id)
            \o <<".json">>

PathOf(k) == _session_path(k.user, k.channel, k.scope)

\* keys whose ids hold "_" or "/", and one that holds neither
KUnderUser == Key(<<"a", "_", "b">>, <<"c">>, <<"default">>)

KUnderChannel == Key(<<"a">>, <<"b", "_", "c">>, <<"default">>)

KSlashUser == Key(<<"a", "/", "b">>, <<"c">>, <<"default">>)

KPlain == Key(<<"x">>, <<"c">>, <<"default">>)

OwnerKeys == {KUnderUser, KUnderChannel, KSlashUser, KPlain}

Paths == {PathOf(k) : k \in Keys \cup OwnerKeys}

_empty_session(t, k) ==
    [user_id |-> k.user, channel_id |-> k.channel,
     session_scope |-> ScopeOrDefault(k.scope),
     domain |-> "", messages |-> << >>, pending_action |-> None,
     updated_at |-> t]

\* what a path holds: no file, or the JSON document of a session
NoFile == [kind |-> "absent", data |-> _empty_session(0, K1)]

JsonFile(session) == [kind |-> "session", data |-> session]

\* the file between open(path, 'w') and json.dump: empty, so json.load fails
TornFile == [kind |-> "torn", data |-> _empty_session(0, K1)]

\* a variant that reads ttl_minutes as a number of hours
_is_expired_hours(t, session, ttl_minutes) == t - session.updated_at > ttl_minutes * 60

_is_expired(t, session, ttl_minutes) == t - session.updated_at > ttl_minutes

\* files that hold a JSON object: a whole session, or one that lacks a key
\* (data then holds the keys that are there)
ObjectKinds == {"session", "lacks_updated_at", "lacks_messages", "lacks_pending_action"}

\* a file that holds valid JSON that is not an object (a list, a number, null)
NotObjectFile == [kind |-> "not_object", data |-> _empty_session(0, K1)]

\* _is_expired on what json.load returned: session.get("updated_at", "") is ""
\* when the key is missing and fromisoformat("") raises ValueError
FileExpired(f, t, ttl_minutes) ==
    f.kind = "lacks_updated_at" \/ _is_expired(t, f.data, ttl_minutes)

\* session.get raises AttributeError on a value that is not a dict (line 42);
\* neither _is_expired nor get_session catches it
get_session_raises(st, k) == st[PathOf(k)].kind = "not_object"

\* a variant that returns the stored session however old it is
get_session_any_age(st, t, k, ttl_minutes) ==
    LET f == st[PathOf(k)]
    IN  IF f.kind \in ObjectKinds
        THEN [f.data EXCEPT !.session_scope = ScopeOrDefault(k.scope)]
        ELSE _empty_session(t, k)

get_session(st, t, k, ttl_minutes) ==
    LET f == st[PathOf(k)]
    IN  IF f.kind \in ObjectKinds
        THEN IF FileExpired(f, t, ttl_minutes)
             THEN _empty_session(t, k)
             ELSE [f.data EXCEPT !.session_scope = ScopeOrDefault(k.scope)]
        ELSE _empty_session(t, k)

\* the keys the dict returned by get_session lacks
SessionLacks(st, t, k, ttl_minutes) ==
    LET f == st[PathOf(k)]
    IN  IF f.kind \in {"lacks_messages", "lacks_pending_action"}
           /\ ~FileExpired(f, t, ttl_minutes)
        THEN IF f.kind = "lacks_messages" THEN {"messages"} ELSE {"pending_action"}
        ELSE {}

\* session["messages"].append raises KeyError when the key is missing (line 107)
update_session_raises(st, t, k, ttl_minutes) ==
    get_session_raises(st, k) \/ "messages" \in SessionLacks(st, t, k, ttl_minutes)

set_pending_action_raises(st, k) == get_session_raises(st, k)

\* the store after a function that read st saved st2: json.dump writes the
\* dict it was given, so a key that was missing and was not assigned stays missing
Resaved(st, st2, t, k, ttl_minutes, assigned) ==
    IF SessionLacks(st, t, k, ttl_minutes) \ assigned = {}
    THEN st2
    ELSE [st2 EXCEPT ![PathOf(k)].kind = st[PathOf(k)].kind]

_save_session(st, session) ==
    [st EXCEPT ![_session_path(session.user_id, session.channel_id,
                               session.session_scope)] = JsonFile(session)]

Message(role, content) == [role |-> role, content |-> content]

\* a variant that starts every write from a fresh session record
update_session_fresh(st, t, k, domain, user_msg, assistant_msg, ttl_minutes) ==
    LET session == get_session(st, t, k, ttl_minutes)
        msgs == session.messages
                  \o <<Message("user", user_msg),
                       Message("assistant", Prefix(assistant_msg, MaxAssistantLen))>>
    IN  _save_session(st,
            [_empty_session(t, k) EXCEPT !.domain = domain,
                                         !.messages = LastN(msgs, MAX_MESSAGES)])

\* a variant that trims the list before it appends the new pair
update_session_trim_first(st, t, k, domain, user_msg, assistant_msg, ttl_minutes) ==
    LET session == get_session(st, t, k, ttl_minutes)
        msgs == LastN(session.messages, MAX_MESSAGES)
                  \o <<Message("user", user_msg),
                       Message("assistant", Prefix(assistant_msg, MaxAssistantLen))>>
    IN  _save_session(st,
            [session EXCEPT !.domain = domain,
                            !.session_scope = ScopeOrDefault(k.scope),
                            !.messages = msgs,
                            !.updated_at = t])

\* a variant whose window is one message short
update_session_odd_window(st, t, k, domain, user_msg, assistant_msg, ttl_minutes) ==
    LET session == get_session(st, t, k, ttl_minutes)
        msgs == session.messages
                  \o <<Message("user", user_msg),
                       Message("assistant", Prefix(assistant_msg, MaxAssistantLen))>>
    IN  _save_session(st,
            [session EXCEPT !.domain = domain,
                            !.session_scope = ScopeOrDefault(k.scope),
                            !.messages = LastN(msgs, MAX_MESSAGES - 1),
                            !.updated_at = t])

update_session(st, t, k, domain, user_msg, assistant_msg, ttl_minutes) ==
    LET session == get_session(st, t, k, ttl_minutes)
        msgs == session.messages
                  \o <<Message("user", user_msg),
                       Message("assistant", Prefix(assistant_msg, MaxAssistantLen))>>
    IN  _save_session(st,
            [session EXCEPT !.domain = domain,
                            !.session_scope = ScopeOrDefault(k.scope),
                            !.messages = LastN(msgs, MAX_MESSAGES),
                            !.updated_at = t])

\* a variant that keeps an action that is already pending
set_pending_action_keep_first(st, t, k, action, ttl_minutes) ==
    LET session == get_session(st, t, k, ttl_minutes)
    IN  _save_session(st,
            [session EXCEPT !.session_scope = ScopeOrDefault(k.scope),
                            !.pending_action =
                                IF session.pending_action = None
                                THEN Some(action) ELSE session.pending_action,
                            !.updated_at = t])

set_pending_action(st, t, k, action, ttl_minutes) ==
    LET session == get_session(st, t, k, ttl_minutes)
    IN  _save_session(st,
            [session EXCEPT !.session_scope = ScopeOrDefault(k.scope),
                            !.pending_action = Some(action),
                            !.updated_at = t])

\* a variant that saves the session whether or not an action was pending
get_and_clear_always_saves(st, t, k, ttl_minutes) ==
    LET session == get_session(st, t, k, ttl_minutes)
        action == session.pending_action
    IN  [store |-> _save_session(st,
                        [session EXCEPT !.session_scope = ScopeOrDefault(k.scope),
                                        !.pending_action = None,
                                        !.updated_at = t]),
         action |-> action]

\* returns the store it leaves and the action it returns
get_and_clear_pending_action(st, t, k, ttl_minutes) ==
    LET session == get_session(st, t, k, ttl_minutes)
        action == session.pending_action
    IN  IF action # None
        THEN [store |-> _save_session(st,
                            [session EXCEPT !.session_scope = ScopeOrDefault(k.scope),
                                            !.pending_action = None,
                                            !.updated_at = t]),
              action |-> action]
        ELSE [store |-> st, action |-> action]

clear_session(st, t, k) == _save_session(st, _empty_session(t, k))

----------------------------------------------------------------------------
(* assistant.py: the pending-action resolution bridge *)

\* get_handler / _get_domain_exec_tool: the domain has a handler and an executor
get_handler(domain) == domain \in DomainsWithHandler

\* a variant that finds an executor for whatever domain the session holds
any_domain_exec_tool(domain) == TRUE

_get_domain_exec_tool(domain) == domain \in DomainsWithHandler

\* a variant that hands the stored tool name on as it is
KeepFunctionsPrefix(tool) == tool

\* tool_name[len("functions."):] when tool_name.startswith("functions.")
StripFunctionsPrefix(tool) ==
    IF Len(tool) > 0 /\ tool[1] = "functions." THEN Tail(tool) ELSE tool

\* the fixed 16-character reply of assistant.py line 87 ("no pending work to process")
NothingPending == Str(<<"no-pending-work">>, 16)

\* the f-string of assistant.py line 106: 22 fixed characters around the domain
NoExecTool(domain) ==
    Str(<<"domain '", domain, "' has no tool">>, 22 + Len(domain))

\* the f-string of assistant.py line 113: an 8-character prefix, the value, "]"
ButtonText(value) == Str(<<"[button-choice: ">> \o value.txt \o <<"]">>, 8 + value.len + 1)

ExecCall(domain, tool, args) == [domain |-> domain, tool |-> tool, args |-> args]

\* tool_result is what the domain's executor answers, if it is called
handle_resolve_action(st, t, value, k, session_ttl, tool_result) ==
    LET popped == get_and_clear_pending_action(st, t, k, session_ttl)
    IN  IF popped.action = None
        THEN [store |-> popped.store, response |-> NothingPending,
              domain |-> "unknown", execs |-> << >>, llm |-> FALSE]
        ELSE LET action == popped.action[1]
                 session == get_session(popped.store, t, k, session_ttl)
                 domain == session.domain
                 tool_name == StripFunctionsPrefix(action.tool)
                 args == [action.args EXCEPT ![action.field_name] = value]
             IN  IF ~_get_domain_exec_tool(domain)
                 THEN [store |-> popped.store, response |-> NoExecTool(domain),
                       domain |-> domain, execs |-> << >>, llm |-> FALSE]
                 ELSE [store |-> update_session(popped.store, t, k, domain,
                                                ButtonText(value), tool_result,
                                                session_ttl),
                       response |-> tool_result, domain |-> domain,
                       execs |-> <<ExecCall(domain, tool_name, args)>>, llm |-> FALSE]

----------------------------------------------------------------------------
(* assistant.py main / server.py invoke_assistant: one request *)

\* "schedule" in channel_id.lower()
is_schedule_channel(channel) == \E i \in 1..Len(channel) : channel[i] = "schedule"

\* the modes a domain's handle() answers with a report instead of the agent loop
ReportModes(domain) ==
    CASE domain = "schedule" -> {"daily_briefing", "weekly_briefing", "reminder"}
      [] domain = "finance" -> {"monthly_report", "weekly_expense"}
      [] domain = "content" -> {"weekly_digest"}
      [] domain = "tools" -> {"payment_reminder"}
      [] domain = "travel" -> {"dday_reminder"}
      [] OTHER -> {}

HandlerResult(kind, response, interactive, llm) ==
    [kind |-> kind, response |-> response, interactive |-> interactive, llm |-> llm]

\* what chat_with_tools_multi hands back through a handler: a response and,
\* for a request_user_choice call, the interactive payload's pending_action
AgentResults ==
    {HandlerResult("agent", r, i, TRUE) :
        r \in Responses, i \in {None} \cup {Some(a) : a \in PendingActions}}

\* a message try_generate_monthly_briefing answers from the database: it asks
\* for the monthly briefing of a content tab
BriefingAsk == Str(<<"AI", "tab", "monthly", "briefing">>, 12)

\* handle(message, mode, session) of a domain
HandlerOutcomes(domain, message, mode) ==
    IF mode \in ReportModes(domain)
    THEN {HandlerResult("report", r, None, mode = "monthly_report") : r \in Responses}
    ELSE IF message = EmptyStr
    THEN {HandlerResult("error", EmptyStr, None, FALSE)}
    ELSE IF domain = "schedule"
    THEN {HandlerResult("raise", EmptyStr, None, FALSE)}
    ELSE IF domain = "content" /\ mode = "chat" /\ message = BriefingAsk
    THEN {HandlerResult("briefing", r, None, FALSE) : r \in Responses}
    ELSE AgentResults

\* the domain a request is routed to; classified is classify_domain's answer
RoutedDomain(st, t, p, classified) ==
    IF p.domain # "router"
    THEN p.domain
    ELSE IF is_schedule_channel(p.key.channel)
    THEN "schedule"
    ELSE LET session == get_session(st, t, p.key, p.ttl)
         IN  IF session.pending_action # None THEN session.domain ELSE classified

Outcome(st, kind, domain, h) ==
    [store |-> st, outcome |-> kind, domain |-> domain, response |-> h.response,
     interactive |-> h.interactive, llm |-> h.llm]

NoResult == HandlerResult("none", EmptyStr, None, FALSE)

\* p: the request's domain, message, mode, key and session_ttl;
\* h: what the routed domain's handler does, if it is called
invoke_assistant(st, t, p, classified, h) ==
    IF p.domain = "router" /\ p.message = EmptyStr
    THEN Outcome(st, "router_needs_message", "router", NoResult)
    ELSE
    LET domain == RoutedDomain(st, t, p, classified)
        has_session == p.mode = "chat" /\ p.key.user # <<"default">>
    IN  IF ~get_handler(domain)
        THEN Outcome(st, "unknown_domain", domain, NoResult)
        ELSE IF h.kind = "raise"
        THEN Outcome(st, "raised", domain, NoResult)
        ELSE
        LET st1 == IF h.interactive # None /\ p.key.user # <<"default">>
                   THEN set_pending_action(st, t, p.key, h.interactive[1], p.ttl)
                   ELSE st
            st2 == IF has_session /\ p.message # EmptyStr
                   THEN update_session(st1, t, p.key, domain, p.message,
                                       h.response, p.ttl)
                   ELSE st1
        IN  Outcome(st2, "ok", domain, h)

----------------------------------------------------------------------------
(* Requests served one at a time *)

NoRequest ==
    [op |-> "none", key |-> K1, ttl |-> MinTtl, at |-> 0,
     domain_arg |-> "", mode |-> "", message |-> EmptyStr,
     assistant_msg |-> EmptyStr, action |-> None, value |-> EmptyStr,
     pre |-> [p \in Paths |-> NoFile], tool_result |-> EmptyStr, ret_session |-> _empty_session(0, K1), ret_action |-> None,
     response |-> EmptyStr, domain |-> "", outcome |-> "", interactive |-> None,
     execs |-> << >>, llm |-> FALSE]

Request(op, k, ttl) ==
    [NoRequest EXCEPT !.op = op, !.key = k, !.ttl = ttl, !.at = now,
                      !.pre = store]

Modes == {"chat", "weekly_expense"}

ClassifyResults == {"travel", "schedule"}

ToolResults == Responses

----------------------------------------------------------------------------
(* core/memory.py: the learned rules *)

MemoryDomains == {"global", "finance", "travel"}

Rule(text, category) == [text |-> text, category |-> category, used_count |-> 0]

RuleTexts(rules) == {rules[i].text : i \in 1..Len(rules)}

\* a variant that moves a rule taught again to the end of the list
add_rule_refreshes(memory, domain, rule_text, category) ==
    LET others == SelectSeq(memory[domain], LAMBDA r : r.text # rule_text)
        rules == LastN(Append(others, Rule(rule_text, category)), MAX_RULES_PER_DOMAIN)
    IN  [memory |-> [memory EXCEPT ![domain] = rules],
         success |-> rule_text \notin RuleTexts(memory[domain]),
         reason |-> IF rule_text \in RuleTexts(memory[domain]) THEN "duplicate" ELSE "",
         count |-> Len(rules), saved |-> TRUE]

\* a variant that makes room by dropping the rule it has just appended
add_rule_keeps_oldest(memory, domain, rule_text, category) ==
    IF rule_text \in RuleTexts(memory[domain])
    THEN [memory |-> memory, success |-> FALSE, reason |-> "duplicate",
          count |-> Len(memory[domain]), saved |-> FALSE]
    ELSE LET rules == SubSeq(Append(memory[domain], Rule(rule_text, category)), 1,
                             Min(Len(memory[domain]) + 1, MAX_RULES_PER_DOMAIN))
         IN  [memory |-> [memory EXCEPT ![domain] = rules],
              success |-> TRUE, reason |-> "", count |-> Len(rules), saved |-> TRUE]

\* a variant without the duplicate test and without the cut
add_rule_appends(memory, domain, rule_text, category) ==
    LET rules == Append(memory[domain], Rule(rule_text, category))
    IN  [memory |-> [memory EXCEPT ![domain] = rules],
         success |-> TRUE, reason |-> "", count |-> Len(rules), saved |-> TRUE]

\* returns the memory it leaves, whether it saved the file, and its result
add_rule(memory, domain, rule_text, category) ==
    IF rule_text \in RuleTexts(memory[domain])
    THEN [memory |-> memory, success |-> FALSE, reason |-> "duplicate",
          count |-> Len(memory[domain]), saved |-> FALSE]
    ELSE LET rules == LastN(Append(memory[domain], Rule(rule_text, category)),
                            MAX_RULES_PER_DOMAIN)
         IN  [memory |-> [memory EXCEPT ![domain] = rules],
              success |-> TRUE, reason |-> "", count |-> Len(rules), saved |-> TRUE]

\* the i-th distinct text taught in SpecRules
RuleText(i) == Str(<<"rule", i>>, 6)

\* get_rules(domain): the domain's rules, then the global ones for another domain
get_rules(memory, domain) ==
    IF domain # "global" THEN memory[domain] \o memory["global"] ELSE memory[domain]

\* the label a rule's category is rendered with (ASCII for the four Korean
\* labels); an unknown category gets the label of "general"
CategoryPrefix(cat) ==
    CASE cat = "mapping" -> "mapping-label"
      [] cat = "preference" -> "preference-label"
      [] cat = "correction" -> "correction-label"
      [] OTHER -> "rule-label"

\* the text returned: the empty string, or a header and one line per rule
EmptyPrompt == [header |-> FALSE, lines |-> << >>]

RenderRules(rules) ==
    [header |-> TRUE,
     lines |-> [i \in 1..Len(rules) |->
                    [prefix |-> CategoryPrefix(rules[i].category), text |-> rules[i].text]]]

\* r["used_count"] = r.get("used_count", 0) + 1 on every rule of a list
Bump(rules) == [i \in 1..Len(rules) |-> [rules[i] EXCEPT !.used_count = @ + 1]]

\* a variant without the test for "global" before the second loop
get_rules_as_prompt_bumps_again(memory, domain) ==
    IF get_rules(memory, domain) = << >>
    THEN [memory |-> memory, prompt |-> EmptyPrompt, saved |-> FALSE]
    ELSE LET own == [memory EXCEPT ![domain] = Bump(@)]
         IN  [memory |-> [own EXCEPT !["global"] = Bump(@)],
              prompt |-> RenderRules(get_rules(memory, domain)), saved |-> TRUE]

\* returns the memory it leaves, the text, and whether it saved the file
get_rules_as_prompt(memory, domain) ==
    IF get_rules(memory, domain) = << >>
    THEN [memory |-> memory, prompt |-> EmptyPrompt, saved |-> FALSE]
    ELSE LET own == [memory EXCEPT ![domain] = Bump(@)]
         IN  [memory |-> IF domain # "global" THEN [own EXCEPT !["global"] = Bump(@)]
                         ELSE own,
              prompt |-> RenderRules(get_rules(memory, domain)), saved |-> TRUE]

----------------------------------------------------------------------------
(* core/openai_client.py: chat_with_tools_multi *)

REQUEST_USER_CHOICE == "request_user_choice"

LEARN_RULE == "learn_rule"

\* dict.get(key, default) and "x or default" on an optional value
Get(opt, default) == IF opt = None THEN default ELSE opt[1]

\* a variant that hands the text back with its marks
keep_markdown(text) == Get(text, EmptyStr)

\* a variant that knows the emphasis written with asterisks only
strip_asterisks(text) ==
    IF text = None \/ text[1].len = 0 THEN EmptyStr
    ELSE LET kept == SelectSeq(text[1].txt, LAMBDA tok : tok # "**")
         IN  Str(kept, text[1].len - 2 * (Len(text[1].txt) - Len(kept)))

\* what strip_markdown does to the texts explored: the emphasis marks go, the
\* pairs of "**" (line 33) and the pairs of "_" (line 36)
strip_markdown(text) ==
    IF text = None \/ text[1].len = 0 THEN EmptyStr
    ELSE LET kept == SelectSeq(text[1].txt, LAMBDA tok : tok \notin {"**", "_"})
             stars == Len(SelectSeq(text[1].txt, LAMBDA tok : tok = "**"))
             unders == Len(SelectSeq(text[1].txt, LAMBDA tok : tok = "_"))
         IN  Str(kept, text[1].len - 2 * stars - unders)

\* content or alternative
OrElse(content, alternative) ==
    IF content = None \/ content[1].len = 0 THEN Some(alternative) ELSE content

NoArgs ==
    [rule |-> None, category |-> None, question |-> None, options |-> None,
     pending_tool |-> None, pending_args |-> None, field_name |-> None,
     title |-> None]

ToolCall(name, arguments) == [name |-> name, arguments |-> arguments]

RentRule == Str(<<"rent is housing">>, 15)

EmojiRule == Str(<<"no emoji">>, 8)

LearnRent ==
    ToolCall(LEARN_RULE, [NoArgs EXCEPT !.rule = Some(RentRule),
                                        !.category = Some("mapping")])

LearnEmoji == ToolCall(LEARN_RULE, [NoArgs EXCEPT !.rule = Some(EmojiRule)])

WhichDay == Str(<<"which day?">>, 10)

SixOptions == <<"mon", "tue", "wed", "thu", "fri", "sat">>

Choice ==
    ToolCall(REQUEST_USER_CHOICE,
             [NoArgs EXCEPT !.question = Some(WhichDay),
                            !.options = Some(SixOptions),
                            !.pending_tool = Some(<<"book">>),
                            !.pending_args = Some(Dict(Str(<<"meeting">>, 7), AbsentVal)),
                            !.field_name = Some("day")])

\* a request_user_choice call whose arguments the model left out
BareChoice == ToolCall(REQUEST_USER_CHOICE, NoArgs)

AddTask == ToolCall("add_task", [NoArgs EXCEPT !.title = Some(Str(<<"meeting">>, 7))])

\* the tool_calls lists explored
ToolCallLists ==
    {<< >>, <<AddTask>>, <<AddTask, AddTask>>,
     <<LearnRent>>, <<LearnEmoji>>, <<LearnRent, LearnEmoji>>,
     <<LearnRent, AddTask>>, <<AddTask, LearnEmoji>>,
     <<Choice>>, <<BareChoice>>, <<LearnEmoji, Choice>>,
     <<AddTask, Choice>>, <<Choice, AddTask>>, <<AddTask, LearnRent, Choice>>}

Bold == Str(<<"**", "ok", "**">>, 6)

Contents == {None, Some(Bold)}

\* what provider.chat answers (core/ai_provider.py)
ProviderResponses ==
    {[content |-> c, tool_calls |-> tcs] : c \in Contents, tcs \in ToolCallLists}

LoopDomains == {"", "finance"}

\* a variant that keeps every option offered
TakeAllOptions(options) == options

\* args.get("options", [])[:5]
TakeOptions(options) == SubSeq(options, 1, Min(MaxOptions, Len(options)))

\* the interactive payload built from the arguments of a request_user_choice call
Interactive(args) ==
    [question |-> Get(args.question, EmptyStr),
     options |-> TakeOptions(Get(args.options, << >>)),
     action_id_prefix |-> Get(args.pending_tool, <<"action">>) \o <<"_">>
                            \o <<Get(args.field_name, "field")>>,
     pending_action |-> [tool |-> Get(args.pending_tool, << >>),
                         args |-> Get(args.pending_args, Dict(AbsentVal, AbsentVal)),
                         field_name |-> Get(args.field_name, "")]]

LoopResult(response, interactive, learning_events) ==
    [response |-> response, interactive |-> interactive,
     learning_events |-> learning_events]

\* a variant that leaves the learn_rule calls in the list
KeepLearnRule(tool_calls) == tool_calls

\* [t for t in tool_calls if t["name"] != LEARN_RULE]
WithoutLearnRule(tool_calls) == SelectSeq(tool_calls, LAMBDA t : t.name # LEARN_RULE)

\* a variant that looks at the head of the list only
HeadCall(tool_calls, name) ==
    IF tool_calls # << >> /\ tool_calls[1].name = name THEN 1 ELSE 0

\* the index of the first call of that name, 0 when there is none
FirstCall(tool_calls, name) ==
    IF \E i \in 1..Len(tool_calls) : tool_calls[i].name = name
    THEN CHOOSE i \in 1..Len(tool_calls) :
            /\ tool_calls[i].name = name
            /\ \A j \in 1..(i - 1) : tool_calls[j].name # name
    ELSE 0

\* the f-string of line 388: 12 fixed characters and the rule
ConfirmMsg(rule_text) == Str(<<"rule-learned: ">> \o rule_text.txt, 12 + rule_text.len)

\* one iteration of the for loop (lines 358-440) on the provider's answer
\* result: whether it returns, what it returns, the memory and learning events
\* it leaves, and the calls it passes to tool_executor
Round(memory, learning_events, result, domain) ==
    LET learn == FirstCall(result.tool_calls, LEARN_RULE)
        largs == result.tool_calls[learn].arguments
        target_domain == IF domain = "" THEN "global" ELSE domain
        rule_text == Get(largs.rule, EmptyStr)
        category == Get(largs.category, "general")
        added == add_rule(memory, target_domain, rule_text, category)
        memory1 == IF learn = 0 THEN memory ELSE added.memory
        events1 ==
            IF learn = 0 THEN learning_events
            ELSE Append(learning_events,
                        [rule |-> rule_text, category |-> category,
                         domain |-> target_domain,
                         status |-> IF added.success THEN "learned" ELSE added.reason])
        tool_calls == IF learn = 0 THEN result.tool_calls
                      ELSE WithoutLearnRule(result.tool_calls)
        choice == FirstCall(tool_calls, REQUEST_USER_CHOICE)
        cargs == tool_calls[choice].arguments
    IN  IF result.tool_calls = << >>
        THEN [returns |-> TRUE, memory |-> memory, learning_events |-> learning_events,
              executed |-> << >>,
              result |-> LoopResult(strip_markdown(result.content), None, learning_events)]
        ELSE IF tool_calls = << >>
        THEN [returns |-> TRUE, memory |-> memory1, learning_events |-> events1,
              executed |-> << >>,
              result |-> LoopResult(
                            strip_markdown(OrElse(result.content, ConfirmMsg(rule_text))),
                            None, events1)]
        ELSE IF choice # 0
        THEN [returns |-> TRUE, memory |-> memory1, learning_events |-> events1,
              executed |-> << >>,
              result |-> LoopResult(
                            strip_markdown(OrElse(result.content,
                                                  Get(cargs.question, EmptyStr))),
                            Some(Interactive(cargs)), events1)]
        ELSE [returns |-> FALSE, memory |-> memory1, learning_events |-> events1,
              executed |-> tool_calls,
              result |-> LoopResult(EmptyStr, None, events1)]

\* a variant that gives the loop one iteration more
RoundsLeftLate(done, max_tool_rounds) == done <= max_tool_rounds

\* for _ in range(max_tool_rounds): another iteration follows
RoundsLeft(done, max_tool_rounds) == done < max_tool_rounds

\* the 14-character default of line 444 ("processing limit exceeded")
ExceededMsg == Str(<<"limit-exceeded">>, 14)

\* the return after the loop (lines 442-447): result.get("content", default)
\* takes the default only when the answer has no "content" key
Exhausted(result, learning_events) ==
    LoopResult(strip_markdown(IF "content" \in DOMAIN result
                              THEN result.content ELSE Some(ExceededMsg)),
               None, learning_events)

\* the messages passed to provider.chat: role and content, and for the
\* messages of a tool round the calls made or the call answered
ChatMessage(role, content) ==
    [role |-> role, content |-> content, tool_calls |-> << >>, tool_call_id |-> None]

\* full_messages before the first provider call: the system prompt and the
\* handler's messages
InitialMessages ==
    <<ChatMessage("system", Some(Str(<<"prompt">>, 6))), ChatMessage("user", Some(Hello))>>

\* the provider gives each call of an answer an id of its own
Tagged(tool_calls, round) ==
    [i \in 1..Len(tool_calls) |->
        [id |-> <<round, i>>, name |-> tool_calls[i].name,
         arguments |-> tool_calls[i].arguments]]

\* the calls of an answer that reach the executor, with their ids
ExecutedWithIds(result, round) ==
    IF FirstCall(result.tool_calls, LEARN_RULE) = 0
    THEN Tagged(result.tool_calls, round)
    ELSE WithoutLearnRule(Tagged(result.tool_calls, round))

\* the assistant message of lines 415-429; json.dumps makes a text of the arguments
AssistantMessage(content, calls) ==
    [role |-> "assistant", content |-> content,
     tool_calls |-> [i \in 1..Len(calls) |->
                        [id |-> calls[i].id, type |-> "function",
                         function |-> [name |-> calls[i].name,
                                       arguments |-> [json |-> calls[i].arguments]]]],
     tool_call_id |-> None]

\* a variant that tags every result with the id of the answer's first call
ToolMessageFirstId(tc, tool_result) ==
    [role |-> "tool", content |-> Some(tool_result), tool_calls |-> << >>,
     tool_call_id |-> Some(<<tc.id[1], 1>>)]

\* the tool message of lines 434-438
ToolMessage(tc, tool_result) ==
    [role |-> "tool", content |-> Some(tool_result), tool_calls |-> << >>,
     tool_call_id |-> Some(tc.id)]

\* what tool_executor returns in the model
ExecutorResult == RShort

\* the messages a round that runs tools appends to full_messages
RoundMessages(result, round) ==
    LET calls == ExecutedWithIds(result, round)
    IN  <<AssistantMessage(result.content, calls)>>
            \o [i \in 1..Len(calls) |-> ToolMessage(calls[i], ExecutorResult)]

NoResponse == [content |-> None, tool_calls |-> << >>]

\* the loop's variables between turns
IdleLoop(memory) ==
    [pc |-> "idle", memory |-> memory, max_tool_rounds |-> 0, domain |-> "",
     provider_calls |-> 0, answer |-> NoResponse, memory_before |-> memory,
     executed |-> << >>, executed_round |-> << >>, learning_events |-> << >>,
     ordinary |-> TRUE, result |-> LoopResult(EmptyStr, None, << >>),
     full_messages |-> << >>, sent |-> << >>, round_messages |-> << >>]

LoopInit == IdleLoop([d \in MemoryDomains |-> << >>])

----------------------------------------------------------------------------
(* core/ai_provider.py: FallbackProvider *)

\* the first token of the content OpenAIProvider.chat and GeminiProvider.chat
\* return when the request fails: f"AI <response error>: {e}"
ErrorSentinel == "AI-error:"

ErrorResponse(e) == [content |-> Some(Str(<<ErrorSentinel, e>>, 10 + Len(e))),
                     tool_calls |-> << >>]

\* answers whose content mentions the sentinel without beginning with it
QuotedError ==
    [content |-> Some(Str(<<"the log says ", ErrorSentinel, "timeout">>, 30)),
     tool_calls |-> << >>]

ProviderErrors == {"timeout", "401", "500", "bad json"}

\* what a provider's chat can return
ChatResults ==
    ProviderResponses \cup {ErrorResponse(e) : e \in ProviderErrors} \cup {QuotedError}

\* the (messages, tools) arguments of a chat call
ChatArguments == {"hello, no tools", "hello, domain tools"}

\* a variant that looks for the sentinel anywhere in the content
ContainsSentinel(result) ==
    LET content == Get(result.content, EmptyStr)
    IN  \E i \in 1..Len(content.txt) : content.txt[i] = ErrorSentinel

\* (result.get("content") or "").startswith(the sentinel)
StartsWithSentinel(result) ==
    LET content == Get(result.content, EmptyStr)
    IN  Len(content.txt) > 0 /\ content.txt[1] = ErrorSentinel

\* FallbackProvider.chat on arguments args, where primary and fallback are what
\* the two providers answer when called: the calls made and the result
FallbackProvider_chat(args, primary, fallback, has_fallback) ==
    IF StartsWithSentinel(primary) /\ has_fallback
    THEN [primary_calls |-> <<args>>, fallback_calls |-> <<args>>, result |-> fallback]
    ELSE [primary_calls |-> <<args>>, fallback_calls |-> << >>, result |-> primary]

----------------------------------------------------------------------------
(* core/openai_client.py: classify_domain *)

\* texts are sequences of characters here, so that "in" is substring search

\* str.lower() on the letters that occur
LowerChar(c) ==
    CASE c = "A" -> "a"
      [] c = "F" -> "f"
      [] c = "I" -> "i"
      [] c = "P" -> "p"
      [] c = "T" -> "t"
      [] OTHER -> c

LowerText(text) == [i \in 1..Len(text) |-> LowerChar(text[i])]

Blank(c) == c \in {" ", "\n"}

\* str.strip()
StripText(text) ==
    IF \A i \in 1..Len(text) : Blank(text[i]) THEN << >>
    ELSE LET first == CHOOSE i \in 1..Len(text) :
                        ~Blank(text[i]) /\ \A j \in 1..(i - 1) : Blank(text[j])
             final == CHOOSE i \in 1..Len(text) :
                        ~Blank(text[i]) /\ \A j \in (i + 1)..Len(text) : Blank(text[j])
         IN  SubSeq(text, first, final)

\* part in text
Contains(text, part) ==
    \E i \in 0..(Len(text) - Len(part)) : SubSeq(text, i + 1, i + Len(part)) = part

\* the name of a domain as text
DomainText(d) ==
    CASE d = "schedule" -> <<"s", "c", "h", "e", "d", "u", "l", "e">>
      [] d = "content" -> <<"c", "o", "n", "t", "e", "n", "t">>
      [] d = "finance" -> <<"f", "i", "n", "a", "n", "c", "e">>
      [] d = "travel" -> <<"t", "r", "a", "v", "e", "l">>
      [] d = "tools" -> <<"t", "o", "o", "l", "s">>
      [] d = "business" -> <<"b", "u", "s", "i", "n", "e", "s", "s">>
      [] d = "workspace" -> <<"w", "o", "r", "k", "s", "p", "a", "c", "e">>

\* a variant that counts a domain once however many of its keywords hit
any_keyword(msg_lower, keywords) ==
    IF \E i \in 1..Len(keywords) : Contains(msg_lower, keywords[i]) THEN 1 ELSE 0

\* sum(1 for kw in keywords if kw in msg_lower)
keyword_score(msg_lower, keywords) ==
    Cardinality({i \in 1..Len(keywords) : Contains(msg_lower, keywords[i])})

\* a variant whose default is no domain
scan_without_default(text) ==
    LET found == {d \in DomainsWithHandler : Contains(text, DomainText(d))}
    IN  IF found = {} THEN {"unknown"} ELSE found

\* for d in valid: if d in text: return d; return "schedule". valid is a set:
\* the order it is walked in is not fixed, so any contained name can come first
scan_valid(text) ==
    LET found == {d \in DomainsWithHandler : Contains(text, DomainText(d))}
    IN  IF found = {} THEN {"schedule"} ELSE found

\* the outcomes of classify_domain(message, domain_keywords) when the provider,
\* if asked, answers content: the number of provider.chat calls and the result
classify_domain(message, domain_keywords, content) ==
    LET msg_lower == LowerText(message)
        score(d) == keyword_score(msg_lower, domain_keywords[d])
        scores == {d \in DOMAIN domain_keywords : score(d) > 0}
        tied == {d \in scores : \A e \in scores : score(e) <= score(d)}
        text == LowerText(StripText(Get(content, << >>)))
    IN  IF scores # {} /\ Cardinality(tied) = 1
        THEN {[provider_calls |-> 0, domain |-> d] : d \in tied}
        ELSE {[provider_calls |-> 1, domain |-> d] : d \in scan_valid(text)}

\* keyword maps as get_domain_keywords_map builds them from the configuration
NoKeywords == [d \in DomainsWithHandler |-> << >>]

Kw_pay == <<"p", "a", "y">>
Kw_card == <<"c", "a", "r", "d">>
Kw_trip == <<"t", "r", "i", "p">>
Kw_AI_upper == <<"A", "I">>
Kw_ai == <<"a", "i">>
Kw_plan == <<"p", "l", "a", "n">>

\* content's keyword is written in capitals and can never be in a lower-cased
\* message
KeywordsPlain ==
    [NoKeywords EXCEPT !["finance"] = <<Kw_pay, Kw_card>>, !["travel"] = <<Kw_trip>>,
                       !["content"] = <<Kw_AI_upper>>]

\* two domains share a keyword
KeywordsShared ==
    [NoKeywords EXCEPT !["finance"] = <<Kw_pay>>, !["travel"] = <<Kw_trip, Kw_pay>>,
                       !["schedule"] = <<Kw_plan>>, !["content"] = <<Kw_ai>>]

KeywordMaps == {NoKeywords, KeywordsPlain, KeywordsShared}

ClassifyMessages ==
    {<<"h", "i">>,
     <<"P", "a", "y">>,
     <<"r", "e", "p", "a", "y", " ", "c", "a", "r", "d">>,
     <<"p", "a", "y", " ", "t", "r", "i", "p">>,
     <<"T", "r", "i", "p", " ", "p", "l", "a", "n">>,
     <<"A", "I">>,
     <<"p", "a", "i", "d">>,
     <<"p", "l", "a", "n", " ", "t", "r", "i", "p", " ", "p", "a", "y", " ", "c", "a", "r", "d">>}

\* what the provider's answer holds as content: nothing, a domain name bare or
\* in a sentence, two names, a name in capitals between blanks, and an error
\* text with and without a domain's name in it
ClassifyContents ==
    {None, Some(<< >>),
     Some(<<"f", "i", "n", "a", "n", "c", "e">>),
     Some(<<" ", "T", "r", "a", "v", "e", "l", "\n">>),
     Some(<<"t", "o", "o", "l", "s", " ", "o", "r", " ", "f", "i", "n", "a", "n", "c", "e">>),
     Some(<<"i", "d", "k">>),
     Some(<<"A", "I", "-", "e", "r", "r", "o", "r", ":", " ", "t", "i", "m", "e", "o", "u", "t">>),
     Some(<<"A", "I", "-", "e", "r", "r", "o", "r", ":", " ", "b", "a", "d", " ", "c", "o", "n", "t", "e", "n", "t", " ", "t", "y", "p", "e">>),
     Some(<<"t", "h", "e", " ", "w", "o", "r", "k", "s", "p", "a", "c", "e">>)}

NoCall ==
    [op |-> "none", args |-> "", primary |-> NoResponse, fallback |-> NoResponse,
     message |-> << >>, domain_keywords |-> NoKeywords, content |-> None,
     provider_calls |-> 0, domain |-> "", prompt |-> EmptyPrompt,
     primary_calls |-> << >>, fallback_calls |-> << >>, result |-> NoResponse,
     fresh |-> 0, repeats |-> 0, replayed |-> FALSE, text |-> EmptyStr,
     before |-> [d \in MemoryDomains |-> << >>],
     success |-> FALSE, reason |-> "", count |-> 0, saved |-> FALSE]

\* the processes of SpecRace and what each holds between requests
Procs == {"p1", "p2"}

RaceTtl == MaxTtl

IdleProc ==
    [pc |-> "idle", op |-> "none", session |-> _empty_session(0, K1),
     action |-> None, setting |-> FALSE, domain |-> "", user_msg |-> EmptyStr,
     assistant_msg |-> EmptyStr, then |-> "idle"]

RaceInit ==
    [proc |-> [p \in Procs |-> IdleProc], runs |-> << >>, sets |-> 0, pops |-> 0,
     started |-> 0, updates |-> << >>]

\* the document _load_memory returns when data/memory.json is missing, empty
\* or unreadable: no rules in any domain
EmptyMemory == [d \in MemoryDomains |-> << >>]

IdleWriter ==
    [pc |-> "idle", op |-> "none", domain |-> "", text |-> EmptyStr,
     memory |-> EmptyMemory, overwritten |-> FALSE]

WritersInit ==
    [proc |-> [p \in Procs |-> IdleWriter], started |-> 0, overlapped |-> FALSE,
     added |-> {}, lost |-> {}]

\* no choice request has been shown; creator is the domain of the turn that
\* stored the latest pending action
NothingShown == [buttons |-> {}, creator |-> ""]

Init ==
    /\ writers = WritersInit
    /\ shown = NothingShown
    /\ store = [p \in Paths |-> NoFile]
    /\ now = 0
    /\ appended = 0
    /\ last = NoRequest
    /\ window = [calls |-> << >>, lapsed |-> FALSE]
    /\ race = RaceInit
    /\ loop = LoopInit
    /\ call = NoCall

\* no request is being served
Idle == last.op = "none"

\* time passes between requests
Tick ==
    /\ Idle
    /\ now < MaxTime
    /\ now' = now + 1
    /\ UNCHANGED <<store, appended, last, window, race, loop, call, writers, shown>>

\* the request's result has been handed to the caller
Return ==
    /\ ~Idle
    /\ last' = NoRequest
    /\ UNCHANGED <<store, now, appended, window, race, loop, call, writers, shown>>

ResolveAction ==
    /\ Idle
    /\ \E k \in Keys, ttl \in TTLs, v \in Values, tr \in ToolResults :
        LET r == handle_resolve_action(store, now, v, k, ttl, tr)
        IN  /\ r.execs # << >> => appended < MaxAppends
            /\ r.execs = << >> => tr = RShort
            /\ store' = r.store
            /\ appended' = appended + Len(r.execs)
            /\ last' = [Request("resolve_action", k, ttl) EXCEPT
                            !.value = v, !.tool_result = tr,
                            !.response = r.response,
                            !.domain = r.domain, !.execs = r.execs, !.llm = r.llm]
            /\ UNCHANGED <<now, window, race, loop, call, writers, shown>>

\* the (domain, message, mode) arguments explored: one for each path through
\* invoke_assistant and the handlers
Arg(d, m, mode) == [domain |-> d, message |-> m, mode |-> mode]

ChatArgs ==
    {Arg("router", EmptyStr, "chat"), Arg("router", Hello, "chat"),
     Arg("finance", Hello, "chat"), Arg("finance", EmptyStr, "chat"),
     Arg("finance", Hello, "weekly_expense"), Arg("travel", Hello, "weekly_expense"),
     Arg("nowhere", Hello, "chat")}

\* one request with arguments a from key k
TurnRequest(k, ttl, a) ==
    [domain |-> a.domain, message |-> a.message, mode |-> a.mode,
     key |-> k, ttl |-> ttl]

\* the pairs of classify_domain's answer and the handler's result that request
\* p can meet in the current store
TurnChoices(p) ==
    LET classifies == /\ p.domain = "router" /\ p.message # EmptyStr
                      /\ ~is_schedule_channel(p.key.channel)
                      /\ get_session(store, now, p.key, p.ttl).pending_action = None
        calls_handler(c) == /\ ~(p.domain = "router" /\ p.message = EmptyStr)
                            /\ get_handler(RoutedDomain(store, now, p, c))
    IN  UNION {{<<c, h>> : h \in IF calls_handler(c)
                                 THEN HandlerOutcomes(RoutedDomain(store, now, p, c),
                                                      p.message, p.mode)
                                 ELSE {NoResult}} :
               c \in IF classifies THEN ClassifyResults ELSE {"schedule"}}

\* what request p does to the session store, and the result it hands back
TurnEffect(p, c, h) ==
    LET r == invoke_assistant(store, now, p, c, h)
        appends == IF r.outcome = "ok" /\ p.message # EmptyStr
                      /\ p.mode = "chat" /\ p.key.user # <<"default">>
                   THEN 1 ELSE 0
    IN  /\ appended + appends <= MaxAppends
        /\ store' = r.store
        /\ appended' = appended + appends
        /\ last' = [Request("chat", p.key, p.ttl) EXCEPT
                        !.domain_arg = p.domain, !.mode = p.mode,
                        !.message = p.message,
                        !.response = r.response, !.domain = r.domain,
                        !.outcome = r.outcome,
                        !.interactive = r.interactive, !.llm = r.llm]

TurnStep(k, ttl, a) ==
    /\ \E ch \in TurnChoices(TurnRequest(k, ttl, a)) :
            TurnEffect(TurnRequest(k, ttl, a), ch[1], ch[2])
    /\ UNCHANGED <<now, window, race, loop, call, writers, shown>>

ChatTurn ==
    /\ Idle
    /\ \E k \in Keys, ttl \in TTLs, a \in ChatArgs : TurnStep(k, ttl, a)

Next ==
    \/ Tick
    \/ Return
    \/ ResolveAction
    \/ ChatTurn

Spec == Init /\ [][Next]_vars

----------------------------------------------------------------------------
(* A chat turn sent to each domain by name (assistant.py, domains/*.py) *)

DomainChatArgs ==
    {Arg(d, Hello, "chat") : d \in DomainsWithHandler}
        \cup {Arg("content", BriefingAsk, "chat")}

DomainChat ==
    /\ Idle
    /\ \E ttl \in TTLs, a \in DomainChatArgs : TurnStep(K1, ttl, a)

NextDomains ==
    \/ Tick
    \/ Return
    \/ DomainChat

SpecDomains == Init /\ [][NextDomains]_vars

----------------------------------------------------------------------------
(* The session store's operations called one at a time (core/session.py) *)

GetSession ==
    /\ Idle
    /\ \E k \in SessionKeys, ttl \in TTLs :
        /\ last' = [Request("get_session", k, ttl) EXCEPT
                        !.ret_session = get_session(store, now, k, ttl)]
        /\ UNCHANGED <<store, now, appended, window, race, loop, call, writers, shown>>

UpdateSession ==
    /\ Idle
    /\ \E k \in SessionKeys, ttl \in TTLs, d \in StoredDomains,
       um \in UserMessages \cup {LongAsk}, am \in Responses :
        /\ appended < MaxAppends
        /\ store' = update_session(store, now, k, d, um, am, ttl)
        /\ appended' = appended + 1
        /\ last' = [Request("update_session", k, ttl) EXCEPT
                        !.domain_arg = d, !.message = um, !.assistant_msg = am]
        /\ UNCHANGED <<now, window, race, loop, call, writers, shown>>

SetPendingAction ==
    /\ Idle
    /\ \E k \in SessionKeys, ttl \in TTLs, a \in PendingActions :
        /\ store' = set_pending_action(store, now, k, a, ttl)
        /\ last' = [Request("set_pending_action", k, ttl) EXCEPT !.action = Some(a)]
        /\ UNCHANGED <<now, appended, window, race, loop, call, writers, shown>>

GetAndClearPendingAction ==
    /\ Idle
    /\ \E k \in SessionKeys, ttl \in TTLs :
        LET r == get_and_clear_pending_action(store, now, k, ttl)
        IN  /\ store' = r.store
            /\ last' = [Request("get_and_clear_pending_action", k, ttl) EXCEPT
                            !.ret_action = r.action]
            /\ UNCHANGED <<now, appended, window, race, loop, call, writers, shown>>

ClearSession ==
    /\ Idle
    /\ \E k \in SessionKeys :
        /\ store' = clear_session(store, now, k)
        /\ last' = Request("clear_session", k, MinTtl)
        /\ UNCHANGED <<now, appended, window, race, loop, call, writers, shown>>

NextStore ==
    \/ Tick
    \/ Return
    \/ GetSession
    \/ UpdateSession
    \/ SetPendingAction
    \/ GetAndClearPendingAction
    \/ ClearSession

SpecStore == Init /\ [][NextStore]_vars

----------------------------------------------------------------------------
(* The session store's operations on keys that hold "_" or "/" (core/session.py) *)

OwnerGet ==
    /\ Idle
    /\ \E k \in OwnerKeys :
        /\ last' = [Request("get_session", k, MaxTtl) EXCEPT
                        !.ret_session = get_session(store, now, k, MaxTtl)]
        /\ UNCHANGED <<store, now, appended, window, race, loop, call, writers, shown>>

OwnerUpdate ==
    /\ Idle
    /\ \E k \in OwnerKeys, am \in Responses :
        /\ appended < MaxAppends
        /\ store' = update_session(store, now, k, "finance", Hello, am, MaxTtl)
        /\ appended' = appended + 1
        /\ last' = [Request("update_session", k, MaxTtl) EXCEPT
                        !.domain_arg = "finance", !.message = Hello,
                        !.assistant_msg = am]
        /\ UNCHANGED <<now, window, race, loop, call, writers, shown>>

OwnerSetPending ==
    /\ Idle
    /\ \E k \in OwnerKeys :
        /\ store' = set_pending_action(store, now, k, PA1, MaxTtl)
        /\ last' = [Request("set_pending_action", k, MaxTtl) EXCEPT !.action = Some(PA1)]
        /\ UNCHANGED <<now, appended, window, race, loop, call, writers, shown>>

OwnerPop ==
    /\ Idle
    /\ \E k \in OwnerKeys :
        LET r == get_and_clear_pending_action(store, now, k, MaxTtl)
        IN  /\ store' = r.store
            /\ last' = [Request("get_and_clear_pending_action", k, MaxTtl) EXCEPT
                            !.ret_action = r.action]
            /\ UNCHANGED <<now, appended, window, race, loop, call, writers, shown>>

OwnerClear ==
    /\ Idle
    /\ \E k \in OwnerKeys :
        /\ store' = clear_session(store, now, k)
        /\ last' = Request("clear_session", k, MaxTtl)
        /\ UNCHANGED <<now, appended, window, race, loop, call, writers, shown>>

NextOwners ==
    \/ Return
    \/ OwnerGet
    \/ OwnerUpdate
    \/ OwnerSetPending
    \/ OwnerPop
    \/ OwnerClear

SpecOwners == Init /\ [][NextOwners]_vars

----------------------------------------------------------------------------
(* The session store over a damaged file (core/session.py) *)

CorruptKinds ==
    {"torn", "not_object", "lacks_updated_at", "lacks_messages", "lacks_pending_action"}

\* something other than the program rewrites K1's file: cut short, replaced
\* by another JSON value, or with one key of the session removed
Damage ==
    /\ Idle
    /\ store[PathOf(K1)].kind \notin CorruptKinds
    /\ \E kind \in CorruptKinds :
        store' = [store EXCEPT ![PathOf(K1)] =
                    IF kind = "torn" THEN TornFile
                    ELSE IF kind = "not_object" THEN NotObjectFile
                    ELSE [kind |-> kind,
                          data |-> IF @.kind = "session" THEN @.data
                                   ELSE _empty_session(now, K1)]]
    /\ UNCHANGED <<now, appended, last, window, race, loop, call, writers, shown>>

Outcome_(raises) == IF raises THEN "raised" ELSE "ok"

DamagedGet ==
    /\ Idle
    /\ \E ttl \in TTLs :
        /\ last' = [Request("get_session", K1, ttl) EXCEPT
                        !.outcome = Outcome_(get_session_raises(store, K1)),
                        !.ret_session = get_session(store, now, K1, ttl)]
        /\ UNCHANGED <<store, now, appended, window, race, loop, call, writers, shown>>

DamagedUpdate ==
    /\ Idle
    /\ \E ttl \in TTLs :
        LET raises == update_session_raises(store, now, K1, ttl)
        IN  /\ appended < MaxAppends
            /\ store' = IF raises THEN store
                        ELSE Resaved(store,
                                     update_session(store, now, K1, "finance", Hello,
                                                    RShort, ttl),
                                     now, K1, ttl, {"messages"})
            /\ appended' = appended + 1
            /\ last' = [Request("update_session", K1, ttl) EXCEPT
                            !.outcome = Outcome_(raises),
                            !.domain_arg = "finance", !.message = Hello,
                            !.assistant_msg = RShort]
            /\ UNCHANGED <<now, window, race, loop, call, writers, shown>>

DamagedSetPending ==
    /\ Idle
    /\ \E ttl \in TTLs :
        LET raises == set_pending_action_raises(store, K1)
        IN  /\ store' = IF raises THEN store
                        ELSE Resaved(store, set_pending_action(store, now, K1, PA1, ttl),
                                     now, K1, ttl, {"pending_action"})
            /\ last' = [Request("set_pending_action", K1, ttl) EXCEPT
                            !.outcome = Outcome_(raises), !.action = Some(PA1)]
            /\ UNCHANGED <<now, appended, window, race, loop, call, writers, shown>>

NextDamaged ==
    \/ Tick
    \/ Return
    \/ Damage
    \/ DamagedGet
    \/ DamagedUpdate
    \/ DamagedSetPending

SpecDamaged == Init /\ [][NextDamaged]_vars

----------------------------------------------------------------------------
(* Every writer of one session, in any order and number (core/session.py,
   assistant.py) *)

PairsTtl == MaxTtl

PairsUpdate ==
    /\ store' = update_session(store, now, K1, "finance", Hello, RShort, PairsTtl)
    /\ UNCHANGED <<now, appended, last, window, race, loop, call, writers, shown>>

PairsSetPending ==
    /\ store' = set_pending_action(store, now, K1, PA1, PairsTtl)
    /\ UNCHANGED <<now, appended, last, window, race, loop, call, writers, shown>>

PairsPop ==
    /\ store' = get_and_clear_pending_action(store, now, K1, PairsTtl).store
    /\ UNCHANGED <<now, appended, last, window, race, loop, call, writers, shown>>

PairsClear ==
    /\ store' = clear_session(store, now, K1)
    /\ UNCHANGED <<now, appended, last, window, race, loop, call, writers, shown>>

\* a button press: handle_resolve_action
PairsResolve ==
    /\ \E v \in Values :
        store' = handle_resolve_action(store, now, v, K1, PairsTtl, RShort).store
    /\ UNCHANGED <<now, appended, last, window, race, loop, call, writers, shown>>

NextPairs ==
    \/ Tick
    \/ PairsUpdate
    \/ PairsSetPending
    \/ PairsPop
    \/ PairsClear
    \/ PairsResolve

SpecPairs == Init /\ [][NextPairs]_vars

----------------------------------------------------------------------------
(* update_session called again and again on one key (core/session.py) *)

WindowUpdate ==
    \E ttl \in TTLs, um \in UserMessages, am \in Responses :
        /\ appended < MaxCalls
        /\ store' = update_session(store, now, K1, "finance", um, am, ttl)
        /\ appended' = appended + 1
        /\ window' = [calls |-> Append(window.calls, <<um, am>>),
                      lapsed |-> \/ window.lapsed
                                 \/ /\ store[PathOf(K1)].kind = "session"
                                    /\ _is_expired(now, store[PathOf(K1)].data, ttl)]
        /\ UNCHANGED <<now, last, race, loop, call, writers, shown>>

NextWindow ==
    \/ Tick
    \/ WindowUpdate

SpecWindow == Init /\ [][NextWindow]_vars

----------------------------------------------------------------------------
(* Requests of separate processes on one session key. assistant.py runs once
   per request, so two requests are two operating-system processes; the steps
   below are the file operations of core/session.py, which takes no lock. *)

\* process p moves to local state l
Goto(p, l) == [race EXCEPT !.proc[p] = l]

\* assistant.py main with domain resolve_action
StartResolve(p) ==
    /\ race.proc[p].pc = "idle"
    /\ race.started < MaxRequests
    /\ race' = [Goto(p, [IdleProc EXCEPT !.pc = "pop", !.op = "resolve"])
                    EXCEPT !.started = @ + 1]
    /\ UNCHANGED <<store, now, appended, last, window, loop, call, writers, shown>>

\* each process names a domain of its own
DomainOf(p) == IF p = "p1" THEN "finance" ELSE "travel"

\* each process sends a message of its own
AskOf(p) == IF p = "p1" THEN Hello ELSE Str(<<"hello again">>, 11)

\* assistant.py main in chat mode with an explicit domain: the handler has
\* answered, with or without a request for a choice
StartChat(p) ==
    /\ race.proc[p].pc = "idle"
    /\ race.started < MaxRequests
    /\ \E interactive \in {None, Some(PA1)} :
        race' = [Goto(p, [IdleProc EXCEPT
                            !.pc = IF interactive # None THEN "set_pending" ELSE "update",
                            !.op = "chat", !.action = interactive,
                            !.domain = DomainOf(p), !.user_msg = AskOf(p),
                            !.assistant_msg = RShort])
                    EXCEPT !.started = @ + 1]
    /\ UNCHANGED <<store, now, appended, last, window, loop, call, writers, shown>>

\* get_and_clear_pending_action up to its decision to save (session.py 129-139)
PopRead(p) ==
    LET l == race.proc[p]
        popped == get_and_clear_pending_action(store, now, K1, RaceTtl)
    IN  /\ l.pc = "pop"
        /\ race' = IF popped.action # None
                   THEN [Goto(p, [l EXCEPT !.pc = "open", !.then = "load_domain",
                                           !.action = popped.action,
                                           !.session = popped.store[PathOf(K1)].data])
                            EXCEPT !.pops = @ + 1]
                   ELSE Goto(p, IdleProc)
        /\ UNCHANGED <<store, now, appended, last, window, loop, call, writers, shown>>

\* handle_resolve_action reads the session for its domain (assistant.py 89-106)
LoadDomain(p) ==
    LET l == race.proc[p]
        domain == get_session(store, now, K1, RaceTtl).domain
    IN  /\ l.pc = "load_domain"
        /\ race' = IF _get_domain_exec_tool(domain)
                   THEN Goto(p, [l EXCEPT !.pc = "exec", !.domain = domain])
                   ELSE Goto(p, IdleProc)
        /\ UNCHANGED <<store, now, appended, last, window, loop, call, writers, shown>>

\* resp = exec_tool(tool_name, args) (assistant.py 108)
RunTool(p) ==
    LET l == race.proc[p]
    IN  /\ l.pc = "exec"
        /\ \E value \in Values :
            race' = [Goto(p, [l EXCEPT !.pc = "update",
                                       !.user_msg = ButtonText(value),
                                       !.assistant_msg = RShort])
                        EXCEPT !.runs = Append(@,
                                    ExecCall(l.domain, StripFunctionsPrefix(l.action[1].tool),
                                             [l.action[1].args EXCEPT
                                                ![l.action[1].field_name] = value]))]
        /\ UNCHANGED <<store, now, appended, last, window, loop, call, writers, shown>>

\* set_pending_action up to its save (session.py 114-125)
SetPendingRead(p) ==
    LET l == race.proc[p]
    IN  /\ l.pc = "set_pending"
        /\ race' = Goto(p, [l EXCEPT
                        !.pc = "open", !.then = "update", !.setting = TRUE,
                        !.session = set_pending_action(store, now, K1, l.action[1],
                                                        RaceTtl)[PathOf(K1)].data])
        /\ UNCHANGED <<store, now, appended, last, window, loop, call, writers, shown>>

\* update_session up to its save (session.py 86-110)
UpdateRead(p) ==
    LET l == race.proc[p]
    IN  /\ l.pc = "update"
        /\ race' = Goto(p, [l EXCEPT
                        !.pc = "open", !.then = "idle", !.setting = FALSE,
                        !.session = update_session(store, now, K1, l.domain, l.user_msg,
                                                   l.assistant_msg, RaceTtl)[PathOf(K1)].data])
        /\ UNCHANGED <<store, now, appended, last, window, loop, call, writers, shown>>

\* _save_session: open(path, 'w') truncates the file (session.py 82)
OpenForWrite(p) ==
    LET l == race.proc[p]
    IN  /\ l.pc = "open"
        /\ store' = [store EXCEPT ![PathOf(K1)] = TornFile]
        /\ race' = Goto(p, [l EXCEPT !.pc = "dump"])
        /\ UNCHANGED <<now, appended, last, window, loop, call, writers, shown>>

\* a variant that returns without writing the session
DropWrite(p) ==
    LET l == race.proc[p]
    IN  /\ l.pc = "dump"
        /\ race' = [Goto(p, IF l.then = "idle" THEN IdleProc ELSE [l EXCEPT !.pc = l.then])
                        EXCEPT !.sets = IF l.setting THEN @ + 1 ELSE @,
                               !.updates = IF l.then = "idle" THEN Append(@, l.user_msg)
                                           ELSE @]
        /\ UNCHANGED <<store, now, appended, last, window, loop, call, writers, shown>>

\* _save_session: json.dump writes the session this process holds (session.py 83);
\* the write that ends update_session (then = "idle") is that call's return
WriteFile(p) ==
    LET l == race.proc[p]
    IN  /\ l.pc = "dump"
        /\ store' = _save_session(store, l.session)
        /\ race' = [Goto(p, IF l.then = "idle" THEN IdleProc ELSE [l EXCEPT !.pc = l.then])
                        EXCEPT !.sets = IF l.setting THEN @ + 1 ELSE @,
                               !.updates = IF l.then = "idle" THEN Append(@, l.user_msg)
                                           ELSE @]
        /\ UNCHANGED <<now, appended, last, window, loop, call, writers, shown>>

NextRace ==
    \E p \in Procs :
        \/ StartResolve(p)
        \/ StartChat(p)
        \/ PopRead(p)
        \/ LoadDomain(p)
        \/ RunTool(p)
        \/ SetPendingRead(p)
        \/ UpdateRead(p)
        \/ OpenForWrite(p)
        \/ WriteFile(p)

SpecRace == Init /\ [][NextRace]_vars

----------------------------------------------------------------------------
(* One agent turn after another (core/openai_client.py) *)

\* every call of the answer is an ordinary tool call
OrdinaryCalls(result) ==
    /\ result.tool_calls # << >>
    /\ \A i \in 1..Len(result.tool_calls) :
        result.tool_calls[i].name \notin {LEARN_RULE, REQUEST_USER_CHOICE}

\* a domain handler calls chat_with_tools_multi; with max_tool_rounds = 0 the
\* return after the loop reads a result that was never assigned
LoopStart ==
    /\ loop.pc = "idle"
    /\ \E max_tool_rounds \in 0..MaxRounds, domain \in LoopDomains :
        loop' = [IdleLoop(loop.memory) EXCEPT
                    !.pc = IF RoundsLeft(0, max_tool_rounds) THEN "running" ELSE "raised",
                    !.max_tool_rounds = max_tool_rounds, !.domain = domain,
                    !.full_messages = InitialMessages]
    /\ UNCHANGED <<store, now, appended, last, window, race, call, writers, shown>>

\* one iteration of the loop on the provider's answer result
RoundStep(result) ==
        LET r == Round(loop.memory, loop.learning_events, result, loop.domain)
            done == loop.provider_calls + 1
            goes_on == ~r.returns /\ RoundsLeft(done, loop.max_tool_rounds)
            appended_now == IF r.returns THEN << >> ELSE RoundMessages(result, done)
        IN  loop' = [loop EXCEPT
                        !.pc = IF goes_on THEN "running" ELSE "returned",
                        !.provider_calls = done,
                        !.answer = result,
                        !.memory_before = loop.memory,
                        !.memory = r.memory,
                        !.learning_events = r.learning_events,
                        !.executed = @ \o r.executed,
                        !.executed_round = r.executed,
                        !.ordinary = @ /\ OrdinaryCalls(result),
                        !.sent = loop.full_messages,
                        !.round_messages = appended_now,
                        !.full_messages = @ \o appended_now,
                        !.result = IF r.returns THEN r.result
                                   ELSE IF goes_on THEN @
                                   ELSE Exhausted(result, r.learning_events)]

\* one iteration: the provider answers and the loop acts on the answer
LoopRound ==
    /\ loop.pc = "running"
    /\ \E result \in ProviderResponses : RoundStep(result)
    /\ UNCHANGED <<store, now, appended, last, window, race, call, writers, shown>>

\* the turn's result, or its exception, has reached the domain handler
LoopReturn ==
    /\ loop.pc \in {"returned", "raised"}
    /\ loop' = IdleLoop(loop.memory)
    /\ UNCHANGED <<store, now, appended, last, window, race, call, writers, shown>>

NextLoop ==
    \/ LoopStart
    \/ LoopRound
    \/ LoopReturn

SpecLoop == Init /\ [][NextLoop]_vars

----------------------------------------------------------------------------
(* The agent loop over a provider whose request can fail
   (core/openai_client.py, core/ai_provider.py) *)

\* the content of a failed request whose exception text holds underscores:
\* 10 characters of sentinel and the 25 of CERTIFICATE_VERIFY_FAILED
MarkedError ==
    [content |-> Some(Str(<<ErrorSentinel, "CERTIFICATE", "_", "VERIFY", "_", "FAILED">>,
                          10 + 25)),
     tool_calls |-> << >>]

FailedResponses == {ErrorResponse("timeout"), MarkedError}

\* one iteration in which the provider's request fails: chat returns the
\* sentinel and the exception's text as content, with no tool calls
FailedRound ==
    /\ loop.pc = "running"
    /\ \E result \in FailedResponses : RoundStep(result)
    /\ UNCHANGED <<store, now, appended, last, window, race, call, writers, shown>>

NextFailing ==
    \/ LoopStart
    \/ LoopRound
    \/ FailedRound
    \/ LoopReturn

SpecFailing == Init /\ [][NextFailing]_vars

----------------------------------------------------------------------------
(* Calls of the provider wrapper (core/ai_provider.py) *)

\* get_provider builds a FallbackProvider only with a fallback provider object
\* (lines 192-196), so self.fallback is always true
FallbackChat ==
    \E args \in ChatArguments, primary \in ChatResults :
        \E fallback \in IF StartsWithSentinel(primary) THEN ChatResults ELSE {NoResponse} :
            LET r == FallbackProvider_chat(args, primary, fallback, TRUE)
            IN  /\ call' = [NoCall EXCEPT !.op = "fallback_chat", !.args = args,
                                          !.primary = primary, !.fallback = fallback,
                                          !.primary_calls = r.primary_calls,
                                          !.fallback_calls = r.fallback_calls,
                                          !.result = r.result]
                /\ UNCHANGED <<store, now, appended, last, window, race, loop, writers, shown>>

NextProvider == FallbackChat

SpecProvider == Init /\ [][NextProvider]_vars

----------------------------------------------------------------------------
(* add_rule called again and again on one domain (core/memory.py) *)

\* the call's outcome, and how many texts have been taught so far
RuleCall(text, r, fresh, repeats, replayed) ==
    [NoCall EXCEPT !.op = "add_rule", !.text = text, !.before = loop.memory,
                   !.success = r.success, !.reason = r.reason, !.count = r.count,
                   !.saved = r.saved, !.fresh = fresh, !.repeats = repeats,
                   !.replayed = replayed]

\* add_rule with a text never passed before
AddNewRule ==
    /\ loop.pc = "idle"
    /\ call.fresh < MaxAdds
    /\ LET text == RuleText(call.fresh + 1)
           r == add_rule(loop.memory, "finance", text, "general")
       IN  /\ loop' = IdleLoop(r.memory)
           /\ call' = RuleCall(text, r, call.fresh + 1, call.repeats, call.replayed)
    /\ UNCHANGED <<store, now, appended, last, window, race, writers, shown>>

\* add_rule with a text passed before: the first one ever, or the latest
AddRuleAgain ==
    /\ loop.pc = "idle"
    /\ call.fresh > 0
    /\ call.repeats < MaxRepeats
    /\ \E text \in {RuleText(1), RuleText(call.fresh)} :
        LET r == add_rule(loop.memory, "finance", text, "general")
        IN  /\ loop' = IdleLoop(r.memory)
            /\ call' = RuleCall(text, r, call.fresh, call.repeats + 1, TRUE)
    /\ UNCHANGED <<store, now, appended, last, window, race, writers, shown>>

NextRules ==
    \/ AddNewRule
    \/ AddRuleAgain

SpecRules == Init /\ [][NextRules]_vars

----------------------------------------------------------------------------
(* Rules taught and rendered into prompts (core/memory.py) *)

\* the add_rule calls explored: two global rules, one for finance and one for
\* travel; "style" is a category without a label of its own
TeachArgs ==
    {[domain |-> "global", text |-> RuleText(1), category |-> "mapping"],
     [domain |-> "global", text |-> RuleText(2), category |-> "style"],
     [domain |-> "finance", text |-> RuleText(1), category |-> "style"],
     [domain |-> "travel", text |-> RuleText(2), category |-> "mapping"]}

\* add_rule on one of the domains
PromptTeach ==
    /\ loop.pc = "idle"
    /\ \E a \in TeachArgs :
        LET r == add_rule(loop.memory, a.domain, a.text, a.category)
        IN  /\ loop' = IdleLoop(r.memory)
            /\ call' = [RuleCall(a.text, r, 0, 0, FALSE) EXCEPT !.domain = a.domain]
    /\ UNCHANGED <<store, now, appended, last, window, race, writers, shown>>

\* a handler builds its system prompt: get_rules_as_prompt(domain)
PromptRender ==
    /\ loop.pc = "idle"
    /\ \A d \in MemoryDomains : \A i \in 1..Len(loop.memory[d]) :
            loop.memory[d][i].used_count < MaxUses
    /\ \E domain \in MemoryDomains :
        LET r == get_rules_as_prompt(loop.memory, domain)
        IN  /\ loop' = IdleLoop(r.memory)
            /\ call' = [NoCall EXCEPT !.op = "get_rules_as_prompt", !.domain = domain,
                                      !.before = loop.memory, !.prompt = r.prompt,
                                      !.saved = r.saved]
    /\ UNCHANGED <<store, now, appended, last, window, race, writers, shown>>

NextPrompt ==
    \/ PromptTeach
    \/ PromptRender

SpecPrompt == Init /\ [][NextPrompt]_vars

----------------------------------------------------------------------------
(* Messages classified one at a time (core/openai_client.py) *)

\* content is what provider.chat answers when classify_domain asks
Classify ==
    \E message \in ClassifyMessages, domain_keywords \in KeywordMaps,
       content \in ClassifyContents :
        \E r \in classify_domain(message, domain_keywords, content) :
            /\ call' = [NoCall EXCEPT
                            !.op = "classify_domain", !.message = message,
                            !.domain_keywords = domain_keywords,
                            !.content = IF r.provider_calls = 0 THEN None ELSE content,
                            !.provider_calls = r.provider_calls,
                            !.domain = r.domain]
            /\ UNCHANGED <<store, now, appended, last, window, race, loop, writers, shown>>

NextClassify ==
    \/ Classify

SpecClassify == Init /\ [][NextClassify]_vars

----------------------------------------------------------------------------
(* Properties of the session store (SpecStore) *)

\* the session the request found: get_session on the store as it was
PreSession == get_session(last.pre, last.at, last.key, last.ttl)

PreFile == last.pre[PathOf(last.key)]

PostFile == store[PathOf(last.key)]

EmptySessionShape(session) ==
    /\ session.domain = ""
    /\ session.messages = << >>
    /\ session.pending_action = None

\* C3: the session has one pending-action slot. Right after set_pending_action,
\* whatever was pending before, two get_and_clear_pending_action calls in a row
\* return the action just set and then None (for any ttl of either call); and
\* every get_and_clear_pending_action returns what the slot of the session it
\* found held, and once it has returned an action the next call returns None.
C3_SingleSlot ==
    /\ last.op = "set_pending_action" =>
        \A ttl1 \in TTLs, ttl2 \in TTLs :
            LET first == get_and_clear_pending_action(store, now, last.key, ttl1)
                second == get_and_clear_pending_action(first.store, now, last.key, ttl2)
            IN  first.action = last.action /\ second.action = None
    /\ last.op = "get_and_clear_pending_action" =>
        /\ last.ret_action = PreSession.pending_action
        /\ last.ret_action # None =>
            \A ttl \in TTLs, t \in now..MaxTime :
                get_and_clear_pending_action(store, t, last.key, ttl).action = None

\* C3 witness: a set_pending_action that replaced a different pending action
C3_Overwrote ==
    /\ last.op = "set_pending_action"
    /\ PreSession.pending_action # None
    /\ PreSession.pending_action # last.action
    /\ PostFile.data.pending_action = last.action

\* C9: a get_session made when strictly more than ttl_minutes have passed since
\* the stored updated_at returns the empty session, never the stored one.
C9_TtlExpiry ==
    (/\ last.op = "get_session"
     /\ PreFile.kind = "session"
     /\ last.at - PreFile.data.updated_at > last.ttl)
    => /\ EmptySessionShape(last.ret_session)
       /\ last.ret_session.user_id = last.key.user
       /\ last.ret_session.channel_id = last.key.channel

\* C9 witness: an expired session with messages and a pending action was read
C9_ReadExpired ==
    /\ last.op = "get_session"
    /\ PreFile.kind = "session"
    /\ PreFile.data.messages # << >>
    /\ PreFile.data.pending_action # None
    /\ last.at - PreFile.data.updated_at > last.ttl
    /\ EmptySessionShape(last.ret_session)

----------------------------------------------------------------------------
(* Properties of the requests (Spec) *)

\* args extended by args[field_name] = value
Injected(action, value) == [action.args EXCEPT ![action.field_name] = value]

\* the pair update_session records for a turn
StoredPair(user_msg, assistant_msg) ==
    <<Message("user", user_msg),
      Message("assistant", Prefix(assistant_msg, MaxAssistantLen))>>

\* the resolution found a pending action and its domain has an executor
ResolvesPending ==
    /\ last.op = "resolve_action"
    /\ PreSession.pending_action # None
    /\ _get_domain_exec_tool(PreSession.domain)

\* what C6 says of the session, the provider and the result
C6_Effects ==
    /\ Len(last.execs) = 1
    /\ last.execs[1].domain = PreSession.domain
    /\ last.execs[1].args = Injected(PreSession.pending_action[1], last.value)
    /\ ~last.llm
    /\ PostFile.kind = "session"
    /\ PostFile.data.messages =
           LastN(PreSession.messages
                    \o StoredPair(ButtonText(last.value), last.tool_result),
                 MAX_MESSAGES)
    /\ PostFile.data.pending_action = None
    /\ last.response = last.tool_result
    /\ last.domain = PreSession.domain

C7_NothingToResolve ==
    (last.op = "resolve_action" /\ PreSession.pending_action = None) =>
        /\ last.response = NothingPending
        /\ last.domain = "unknown"
        /\ last.execs = << >>
        /\ ~last.llm
        /\ store = last.pre

\* C7 witness: a click on a pending action that expired with its session
C7_ExpiredClick ==
    /\ last.op = "resolve_action"
    /\ PreFile.kind = "session"
    /\ PreFile.data.pending_action # None
    /\ PreSession.pending_action = None
    /\ last.response = NothingPending
    /\ last.at > PreFile.data.updated_at

\* a chat turn of a user other than "default" whose result is interactive
InteractiveChat ==
    /\ last.op = "chat"
    /\ last.mode = "chat"
    /\ last.key.user # <<"default">>
    /\ last.interactive # None

\* C8: after such a turn the stored session holds the result's pending_action
\* and ends with the turn's (user message, assistant response) pair.
C8_PendingSurvivesAppend ==
    InteractiveChat =>
        /\ PostFile.kind = "session"
        /\ PostFile.data.pending_action = last.interactive
        /\ Len(PostFile.data.messages) >= 2
        /\ LastN(PostFile.data.messages, 2) = StoredPair(last.message, last.response)

\* C8 witness: an interactive turn appended to a session that had messages
C8_InteractiveStored ==
    /\ InteractiveChat
    /\ PreSession.messages # << >>
    /\ PreSession.pending_action # last.interactive
    /\ PostFile.data.pending_action = last.interactive

----------------------------------------------------------------------------
(* Properties of the message window (SpecWindow) *)

RECURSIVE PairsOf(_)
\* the messages that a sequence of update_session calls appends
PairsOf(calls) ==
    IF calls = << >> THEN << >>
    ELSE PairsOf(SubSeq(calls, 1, Len(calls) - 1))
            \o StoredPair(calls[Len(calls)][1], calls[Len(calls)][2])

StoredMessages ==
    IF store[PathOf(K1)].kind = "session" THEN store[PathOf(K1)].data.messages ELSE << >>

\* C10: after N update_session calls on a key that started absent, none of which
\* found the session expired, the stored list has min(2N, 20) messages: the most
\* recent pairs, in order.
C10_WindowBound ==
    ~window.lapsed =>
        /\ Len(window.calls) = appended
        /\ Len(StoredMessages) = Min(2 * appended, MAX_MESSAGES)
        /\ StoredMessages = LastN(PairsOf(window.calls), MAX_MESSAGES)

\* C10 witness: the eleventh call pushed the first pair out of the window
C10_Evicted ==
    /\ ~window.lapsed
    /\ appended = 11
    /\ Len(StoredMessages) = MAX_MESSAGES
    /\ StoredMessages[1] = Message("user", window.calls[2][1])
    /\ window.calls[1][2] # window.calls[2][2]

----------------------------------------------------------------------------
(* Properties of concurrent requests (SpecRace) *)

\* C2: across any interleaving of requests on one session key, each pending
\* action that was stored is returned non-null by get_and_clear_pending_action
\* at most once, so its tool is run at most once.
C2_ConsumedOnce ==
    /\ race.pops <= race.sets
    /\ Len(race.runs) <= race.sets

----------------------------------------------------------------------------
(* Properties of the agent loop (SpecLoop) *)

\* the loop has acted on a provider answer in this turn
Answered == loop.pc \in {"running", "returned"} /\ loop.provider_calls >= 1

\* C1: with max_tool_rounds >= 1 and a provider that answers every call with
\* ordinary tool calls, the loop makes exactly max_tool_rounds provider calls,
\* never more, and then returns a result whose interactive field is None.
C1_BoundedRounds ==
    (loop.pc # "idle" /\ loop.max_tool_rounds >= 1 /\ loop.ordinary) =>
        /\ loop.provider_calls <= loop.max_tool_rounds
        /\ loop.pc = "running" <=> loop.provider_calls < loop.max_tool_rounds
        /\ loop.pc = "returned" <=> loop.provider_calls = loop.max_tool_rounds
        /\ loop.pc = "returned" => loop.result.interactive = None
        /\ Len(loop.executed) >= loop.provider_calls

\* C1 witness: two rounds of ordinary tool calls used up max_tool_rounds = 2
C1_RoundsUsedUp ==
    /\ loop.pc = "returned"
    /\ loop.ordinary
    /\ loop.max_tool_rounds = 2
    /\ loop.provider_calls = 2
    /\ Len(loop.executed) > 2

\* the answer just handled holds a request_user_choice call
AnswerHasChoice ==
    /\ Answered
    /\ \E i \in 1..Len(loop.answer.tool_calls) :
        loop.answer.tool_calls[i].name = REQUEST_USER_CHOICE

\* C4: an answer holding a request_user_choice call ends the turn at once with
\* an interactive result: pending_action = {tool: pending_tool, args:
\* pending_args, field_name: field_name}, at most five options, action_id_prefix
\* = pending_tool + "_" + field_name; no call of that answer reaches the
\* executor and no provider call follows.
C4_ChoiceEndsTurn ==
    AnswerHasChoice =>
        LET calls == loop.answer.tool_calls
            first == CHOOSE i \in 1..Len(calls) :
                        /\ calls[i].name = REQUEST_USER_CHOICE
                        /\ \A j \in 1..(i - 1) : calls[j].name # REQUEST_USER_CHOICE
            args == calls[first].arguments
            given == args.pending_tool # None /\ args.field_name # None
                        /\ args.pending_args # None /\ args.options # None
        IN  /\ loop.pc = "returned"
            /\ loop.executed_round = << >>
            /\ loop.result.interactive # None
            /\ Len(loop.result.interactive[1].options) <= 5
            /\ given =>
                LET it == loop.result.interactive[1]
                IN  /\ it.pending_action = [tool |-> args.pending_tool[1],
                                            args |-> args.pending_args[1],
                                            field_name |-> args.field_name[1]]
                    /\ it.action_id_prefix
                         = args.pending_tool[1] \o <<"_", args.field_name[1]>>
                    /\ \A i \in 1..Len(it.options) : it.options[i] = args.options[1][i]
                    /\ Len(it.options) = Min(5, Len(args.options[1]))
            /\ ~given =>
                LET it == loop.result.interactive[1]
                IN  /\ it.pending_action = [tool |-> << >>,
                                            args |-> Dict(AbsentVal, AbsentVal),
                                            field_name |-> ""]
                    /\ it.action_id_prefix = <<"action", "_", "field">>
                    /\ it.options = << >>

\* C4 witness: a six-option choice came after a learn_rule call in the second
\* round, tools having run in the first
C4_ChoiceAfterTools ==
    /\ AnswerHasChoice
    /\ loop.provider_calls = 2
    /\ loop.max_tool_rounds > 2 \/ loop.max_tool_rounds = 2
    /\ loop.executed # << >>
    /\ loop.answer.tool_calls = <<LearnEmoji, Choice>>
    /\ Len(loop.result.interactive[1].options) = 5

\* the answer just handled is one learn_rule call whose text is not yet stored
LearnTarget == IF loop.domain = "" THEN "global" ELSE loop.domain

LearnOnlyNew ==
    /\ Answered
    /\ Len(loop.answer.tool_calls) = 1
    /\ loop.answer.tool_calls[1].name = LEARN_RULE
    /\ \A i \in 1..Len(loop.memory_before[LearnTarget]) :
        <<loop.memory_before[LearnTarget][i].text>> # loop.answer.tool_calls[1].arguments.rule

\* C5: an answer that is one learn_rule call with a text not yet stored adds
\* exactly that rule to the turn's domain ("global" for an empty label) and
\* ends the turn in that round; the executor never receives a learn_rule call.
C5_LearnRuleStaysInside ==
    /\ \A i \in 1..Len(loop.executed) : loop.executed[i].name # LEARN_RULE
    /\ LearnOnlyNew =>
        LET args == loop.answer.tool_calls[1].arguments
            before == loop.memory_before[LearnTarget]
            after == loop.memory[LearnTarget]
        IN  /\ Len(after) = Len(before) + 1
            /\ SubSeq(after, 1, Len(before)) = before
            /\ <<after[Len(after)].text>> = args.rule
            /\ \A d \in MemoryDomains \ {LearnTarget} :
                loop.memory[d] = loop.memory_before[d]
            /\ loop.pc = "returned"
            /\ loop.executed_round = << >>
            /\ loop.result.interactive = None

\* C5 witness: a second rule was learned under "global" in a turn with no domain
C5_LearnedGlobal ==
    /\ LearnOnlyNew
    /\ loop.domain = ""
    /\ Len(loop.memory_before["global"]) = 1
    /\ Len(loop.memory["global"]) = 2

\* the turn is over and every round ended with ordinary tool calls
RoundsAllOrdinary ==
    /\ loop.pc = "returned"
    /\ loop.ordinary
    /\ loop.provider_calls = loop.max_tool_rounds

\* C11: when every round ended with ordinary tool calls the result is not
\* interactive and its response is the last answer's content, or the fixed
\* "limit exceeded" message when that content is null or empty or when no
\* provider call was made (max_tool_rounds = 0).
C11_ExhaustedReply ==
    /\ RoundsAllOrdinary =>
        /\ loop.result.interactive = None
        /\ loop.result.response =
            IF loop.answer.content = None \/ loop.answer.content[1].len = 0
            THEN ExceededMsg
            ELSE strip_markdown(loop.answer.content)
    /\ (loop.pc # "idle" /\ loop.max_tool_rounds = 0) =>
        /\ loop.pc = "returned"
        /\ loop.result.response = ExceededMsg

----------------------------------------------------------------------------
(* Properties of the provider wrapper (SpecProvider) *)

\* the primary's content begins with the error sentinel
PrimaryFailed ==
    /\ call.primary.content # None
    /\ call.primary.content[1].txt # << >>
    /\ call.primary.content[1].txt[1] = ErrorSentinel

\* C12: FallbackProvider.chat calls the primary exactly once; it calls the
\* fallback, once and with the same arguments, exactly when the primary's
\* content begins with the error sentinel, and then returns the fallback's
\* result as it is, an error included; otherwise it returns the primary's
\* result as it is.
C12_FallbackOnSentinel ==
    call.op = "fallback_chat" =>
        /\ call.primary_calls = <<call.args>>
        /\ PrimaryFailed => /\ call.fallback_calls = <<call.args>>
                            /\ call.result = call.fallback
        /\ ~PrimaryFailed => /\ call.fallback_calls = << >>
                             /\ call.result = call.primary

\* C12 witness: the primary failed and the fallback failed in another way
C12_BothFailed ==
    /\ call.op = "fallback_chat"
    /\ PrimaryFailed
    /\ call.fallback = ErrorResponse("401")
    /\ call.primary = ErrorResponse("timeout")
    /\ call.result = ErrorResponse("401")

----------------------------------------------------------------------------
(* Properties of the rule memory (SpecRules) *)

\* the text of the latest add_rule call was in the domain's list
TextWasStored ==
    /\ call.op = "add_rule"
    /\ \E i \in 1..Len(call.before["finance"]) : call.before["finance"][i].text = call.text

\* C13: add_rule with a text already in the domain's list returns success =
\* false, reason = "duplicate" and the unchanged length as count, and leaves
\* the stored document as it was; the same text twice on an empty domain gives
\* count 1.
C13_DuplicateRejected ==
    /\ TextWasStored =>
        /\ ~call.success
        /\ call.reason = "duplicate"
        /\ call.count = Len(call.before["finance"])
        /\ ~call.saved
        /\ loop.memory = call.before
    /\ (call.op = "add_rule" /\ call.fresh = 1 /\ call.repeats = 1) =>
        /\ call.count = 1
        /\ ~call.success
        /\ Len(loop.memory["finance"]) = 1

\* C13 witness: the oldest of several stored rules was taught again
C13_OldestTaughtAgain ==
    /\ TextWasStored
    /\ Len(call.before["finance"]) > 2
    /\ call.before["finance"][1].text = call.text

\* C14: after n add_rule calls with pairwise distinct texts on one empty
\* domain the list holds the last min(n, 50) of them in insertion order; with
\* n = 55 fifty remain and the five oldest are gone.
C14_KeepsLastFifty ==
    (call.op = "add_rule" /\ ~call.replayed) =>
        LET n == call.fresh
            kept == IF n < 50 THEN n ELSE 50
            rules == loop.memory["finance"]
        IN  /\ Len(rules) = kept
            /\ \A i \in 1..kept : rules[i].text = RuleText(n - kept + i)
            /\ n = 55 => /\ Len(rules) = 50
                         /\ \A i \in 1..50 : rules[i].text \notin {RuleText(j) : j \in 1..5}
                         /\ rules[1].text = RuleText(6)
            /\ loop.memory["global"] = << >>

\* C14 witness: the fifty-fifth distinct rule has been added
C14_FiveEvicted ==
    /\ call.op = "add_rule"
    /\ ~call.replayed
    /\ call.fresh = 55
    /\ call.count = 50
    /\ loop.memory["finance"][50].text = RuleText(55)

----------------------------------------------------------------------------
(* Properties of session ownership (SpecOwners) *)

\* the key tuple a stored session was created for
OwnerOf(session) ==
    Key(session.user_id, session.channel_id, session.session_scope)

\* the file belongs to another key tuple than the request's
OthersFile(f) == f.kind = "session" /\ OwnerOf(f.data) # last.key

\* C15: an operation on one (user_id, channel_id, scope) never returns and
\* never changes the session stored under a different tuple, whatever
\* characters the ids hold.
C15_OwnedByKey ==
    last.op # "none" =>
        /\ \A p \in Paths : OthersFile(last.pre[p]) => store[p] = last.pre[p]
        /\ last.op = "get_session" => OwnerOf(last.ret_session) = last.key
        /\ last.ret_action # None => ~OthersFile(PreFile)

----------------------------------------------------------------------------
(* Properties of the store over a damaged file (SpecDamaged) *)

\* C16: on invalid JSON, on JSON that is not an object and on an object that
\* lacks updated_at, messages or pending_action, get_session does not raise and
\* returns a fresh empty session, and update_session and set_pending_action on
\* that key succeed.
C16_SelfHeals ==
    /\ (last.op = "get_session" /\ PreFile.kind \in CorruptKinds) =>
        /\ last.outcome = "ok"
        /\ EmptySessionShape(last.ret_session)
        /\ last.ret_session.updated_at = last.at
        /\ SessionLacks(last.pre, last.at, last.key, last.ttl) = {}
    /\ (last.op \in {"update_session", "set_pending_action"}
            /\ PreFile.kind \in CorruptKinds) =>
        /\ last.outcome = "ok"
        /\ PostFile.kind = "session"

----------------------------------------------------------------------------
(* Properties of a chat turn per domain (SpecDomains) *)

\* C17: in each of the seven domains a chat-mode turn with a non-empty message
\* calls the provider at least once and returns a result with response and
\* domain; no exception leaves the handler.
C17_EveryDomainRunsLoop ==
    (/\ last.op = "chat" /\ last.mode = "chat" /\ last.message # EmptyStr
     /\ last.domain_arg \in DomainsWithHandler) =>
        /\ last.outcome = "ok"
        /\ last.llm
        /\ last.domain = last.domain_arg

\* the first answer of the turn has been handled and carried no tool call
FirstAnswerPlain ==
    /\ loop.pc \in {"running", "returned"}
    /\ loop.provider_calls = 1
    /\ loop.answer.tool_calls = << >>

\* C18: when the first answer carries no tool call, the turn ends after that one
\* provider call, with no executor call and Rule Memory as it was, and returns
\* the answer's content less its markdown, no interactive payload and no
\* learning events.
C18_PlainAnswerReturns ==
    FirstAnswerPlain =>
        /\ loop.pc = "returned"
        /\ loop.executed = << >>
        /\ loop.memory = loop.memory_before
        /\ loop.result.response = IF loop.answer.content = Some(Bold)
                                  THEN Str(<<"ok">>, 2) ELSE EmptyStr
        /\ loop.result.interactive = None
        /\ loop.result.learning_events = << >>

\* C18 witness: a bold answer without tool calls ended a turn that had rounds to
\* spare, rules having been learned in an earlier turn
C18_BoldAnswerStripped ==
    /\ FirstAnswerPlain
    /\ loop.pc = "returned"
    /\ loop.max_tool_rounds = 2
    /\ loop.answer.content = Some(Bold)
    /\ loop.result.response = Str(<<"ok">>, 2)
    /\ loop.memory["finance"] # << >>

----------------------------------------------------------------------------
(* Properties of classify_domain (SpecClassify) *)

\* the number of a domain's keywords found in the lower-cased message
Hits(d) ==
    Cardinality({i \in 1..Len(call.domain_keywords[d]) :
                    Contains(LowerText(call.message), call.domain_keywords[d][i])})

\* the domains that reach the highest score, when that score is not zero
Winners ==
    {d \in DomainsWithHandler :
        Hits(d) > 0 /\ \A e \in DomainsWithHandler : Hits(e) <= Hits(d)}

Named ==
    {d \in DomainsWithHandler :
        Contains(LowerText(StripText(Get(call.content, << >>))), DomainText(d))}

\* C20: when classify_domain asks the provider, its result is one of schedule,
\* content, finance, travel, tools, business, workspace; when the lower-cased
\* answer holds none of these names (an error text or no content included) the
\* result is "schedule".
C20_Phase2InValidSet ==
    (call.op = "classify_domain" /\ call.provider_calls = 1) =>
        /\ call.domain \in {"schedule", "content", "finance", "travel", "tools",
                            "business", "workspace"}
        /\ Named = {} => call.domain = "schedule"

\* C20 witness: on a tie the provider answered with an error text that names no
\* domain, and the result was schedule
C20_ErrorGivesSchedule ==
    /\ call.op = "classify_domain"
    /\ Cardinality(Winners) = 2
    /\ call.provider_calls = 1
    /\ call.content = Some(<<"A", "I", "-", "e", "r", "r", "o", "r", ":", " ",
                             "t", "i", "m", "e", "o", "u", "t">>)
    /\ call.domain = "schedule"

----------------------------------------------------------------------------
(* Properties of the rules rendered into prompts (SpecPrompt) *)

\* the domains whose rules get_rules_as_prompt(call.domain) renders
RenderedDomains == {call.domain, "global"}

\* the rules of the rendered domains before the call, the domain's own first
RenderedBefore ==
    IF call.domain = "global" THEN call.before["global"]
    ELSE call.before[call.domain] \o call.before["global"]

\* C21: get_rules_as_prompt(domain) raises used_count by exactly 1 on every rule
\* it rendered (the domain's rules and, for a domain other than "global", the
\* global rules; the global rules once when domain is "global") and changes no
\* rule of another domain; with no rule to render it returns the empty string
\* and writes nothing.
C21_RenderedRulesBumpedOnce ==
    call.op = "get_rules_as_prompt" =>
        IF RenderedBefore = << >>
        THEN /\ ~call.prompt.header
             /\ call.prompt.lines = << >>
             /\ ~call.saved
             /\ loop.memory = call.before
        ELSE /\ call.saved
             /\ call.prompt.header
             /\ Len(call.prompt.lines) = Len(RenderedBefore)
             /\ \A i \in 1..Len(RenderedBefore) :
                    call.prompt.lines[i].text = RenderedBefore[i].text
             /\ \A d \in MemoryDomains :
                    /\ Len(loop.memory[d]) = Len(call.before[d])
                    /\ \A i \in 1..Len(call.before[d]) :
                        loop.memory[d][i] =
                            [call.before[d][i] EXCEPT
                                !.used_count = @ + (IF d \in RenderedDomains THEN 1 ELSE 0)]

\* C21 witness: the global rules were rendered for "global" a second time while
\* finance and travel held rules, finance's used once, travel's never
C21_GlobalRenderedTwice ==
    /\ call.op = "get_rules_as_prompt"
    /\ call.domain = "global"
    /\ Len(loop.memory["global"]) = 2
    /\ loop.memory["global"][1].used_count = 2
    /\ loop.memory["finance"] # << >>
    /\ loop.memory["finance"][1].used_count = 1
    /\ loop.memory["travel"] # << >>
    /\ loop.memory["travel"][1].used_count = 0

\* the calls of the answer just handled that are named name
CallsNamed(name) == SelectSeq(loop.answer.tool_calls, LAMBDA t : t.name = name)

\* the calls of the answer just handled that are not learn_rule calls
NotLearnCalls == SelectSeq(loop.answer.tool_calls, LAMBDA t : t.name # LEARN_RULE)

\* C22: within one answer the call kinds are served by priority: the learn_rule
\* call is applied to Rule Memory first; then an answer with a
\* request_user_choice call returns the interactive result and none of its
\* ordinary tools is executed, wherever they stand in the list; only otherwise
\* are the remaining tools executed.
C22_PriorityOrder ==
    Answered =>
        /\ CallsNamed(LEARN_RULE) # << >> =>
            LET args == CallsNamed(LEARN_RULE)[1].arguments
            IN  /\ args.rule[1] \in RuleTexts(loop.memory[LearnTarget])
                /\ loop.learning_events # << >>
                /\ loop.learning_events[Len(loop.learning_events)].rule = args.rule[1]
        /\ CallsNamed(LEARN_RULE) = << >> => loop.memory = loop.memory_before
        /\ CallsNamed(REQUEST_USER_CHOICE) # << >> =>
            /\ loop.pc = "returned"
            /\ loop.result.interactive # None
            /\ loop.executed_round = << >>
        /\ (CallsNamed(REQUEST_USER_CHOICE) = << >> /\ NotLearnCalls # << >>) =>
            /\ loop.executed_round = NotLearnCalls
            /\ loop.result.interactive = None

\* C22 witness: the answer listed a tool, a learn_rule call and a choice; the
\* rule was stored, the choice was returned and the tool was not run
C22_ToolBeforeChoiceNotRun ==
    /\ Answered
    /\ loop.answer.tool_calls = <<AddTask, LearnRent, Choice>>
    /\ RentRule \notin RuleTexts(loop.memory_before[LearnTarget])
    /\ RentRule \in RuleTexts(loop.memory[LearnTarget])
    /\ loop.result.interactive # None
    /\ loop.executed_round = << >>

\* the calls of the answer just handled that were run, with the ids the
\* provider gave them
RunWithIds ==
    SelectSeq(Tagged(loop.answer.tool_calls, loop.provider_calls),
              LAMBDA t : t.name # LEARN_RULE)

\* the tool messages of a list
ToolMessages(messages) == SelectSeq(messages, LAMBDA msg : msg.role = "tool")

\* C23: a round that executes ordinary tools appends to the message list one
\* assistant message with the tool-call envelope and then one tool-result
\* message per executed call, in the answer's order and tagged with that call's
\* id; the executor is called in the same order, and the next provider call is
\* passed all of these messages.
C23_ToolRoundMessages ==
    /\ (Answered /\ loop.executed_round # << >>) =>
        /\ Len(loop.round_messages) = 1 + Len(loop.executed_round)
        /\ loop.round_messages[1].role = "assistant"
        /\ Len(loop.round_messages[1].tool_calls) = Len(RunWithIds)
        /\ Len(loop.executed_round) = Len(RunWithIds)
        /\ \A i \in 1..Len(RunWithIds) :
            /\ loop.round_messages[1].tool_calls[i].id = RunWithIds[i].id
            /\ loop.round_messages[1].tool_calls[i].function.name = RunWithIds[i].name
            /\ loop.executed_round[i].name = RunWithIds[i].name
            /\ loop.executed_round[i].arguments = RunWithIds[i].arguments
            /\ loop.round_messages[1 + i].role = "tool"
            /\ loop.round_messages[1 + i].tool_call_id = Some(RunWithIds[i].id)
        /\ loop.full_messages = loop.sent \o loop.round_messages
    /\ (Answered /\ loop.provider_calls >= 2) =>
        /\ Len(ToolMessages(loop.sent)) = Len(loop.executed) - Len(loop.executed_round)
        /\ loop.sent[Len(loop.sent)].role = "tool"
        /\ loop.sent[Len(loop.sent)].tool_call_id[1][1] = loop.provider_calls - 1

\* C23 witness: the second provider call was passed the result of the first
\* round, whose answer held a learn_rule call before its tool, and answered with
\* two tools that were run in turn
C23_SecondRoundSeesResults ==
    /\ Answered
    /\ loop.provider_calls = 2
    /\ Len(loop.executed) = 3
    /\ loop.answer.tool_calls = <<AddTask, AddTask>>
    /\ Len(ToolMessages(loop.sent)) = 1
    /\ loop.sent[Len(loop.sent)].tool_call_id = Some(<<1, 2>>)
    /\ loop.round_messages[3].tool_call_id = Some(<<2, 2>>)

----------------------------------------------------------------------------
(* Properties of the stored message list (SpecPairs, SpecWindow) *)

\* C24: in every stored session reached from the empty one by update_session,
\* set_pending_action, get_and_clear_pending_action, clear_session and
\* handle_resolve_action calls, messages holds at most 10 whole pairs: its
\* length is even and at most 20 and the roles alternate user, assistant from
\* the first message on.
C24_WholePairs ==
    \A p \in Paths :
        store[p].kind = "session" =>
            LET messages == store[p].data.messages
            IN  /\ Len(messages) % 2 = 0
                /\ Len(messages) <= 20
                /\ \A i \in 1..Len(messages) :
                    messages[i].role = IF i % 2 = 1 THEN "user" ELSE "assistant"

\* C24 witness: the list is full, its oldest pair came from a button press and
\* an action is pending
C24_FullAfterButton ==
    /\ store[PathOf(K1)].kind = "session"
    /\ Len(store[PathOf(K1)].data.messages) = 20
    /\ store[PathOf(K1)].data.messages[1].content # Hello
    /\ store[PathOf(K1)].data.messages[19].content = Hello
    /\ store[PathOf(K1)].data.pending_action # None

\* C25: every assistant message in a stored session is the first min(500,
\* length) characters of the response it records, so none is longer than 500
\* characters; user messages are stored whole.
C25_AssistantCutUserWhole ==
    /\ \A p \in Paths :
        store[p].kind = "session" =>
            \A i \in 1..Len(store[p].data.messages) :
                store[p].data.messages[i].role = "assistant" =>
                    store[p].data.messages[i].content.len <= 500
    /\ last.op = "update_session" =>
        LET messages == PostFile.data.messages
            n == Len(messages)
        IN  /\ n >= 2
            /\ messages[n - 1] = Message("user", last.message)
            /\ messages[n].role = "assistant"
            /\ messages[n].content.txt = last.assistant_msg.txt
            /\ messages[n].content.len = IF last.assistant_msg.len < 500
                                         THEN last.assistant_msg.len ELSE 500

\* C25 witness: a 501-character response was stored as 500 characters next to
\* a 600-character user message stored whole
C25_LongPairStored ==
    /\ last.op = "update_session"
    /\ last.assistant_msg.len = 501
    /\ last.message.len = 600
    /\ PostFile.data.messages[Len(PostFile.data.messages)].content.len = 500
    /\ PostFile.data.messages[Len(PostFile.data.messages) - 1].content.len = 600

----------------------------------------------------------------------------
(* Properties of concurrent update_session calls (SpecRace) *)

\* every request has returned, and the requests were chat turns without a
\* choice: the only writes were those of update_session
OnlyUpdatesRan ==
    /\ \A p \in Procs : race.proc[p].pc = "idle"
    /\ race.sets = 0
    /\ race.pops = 0
    /\ race.updates # << >>

RaceFile == store[PathOf(K1)]

C27_PendingWithItsDomain ==
    \A p \in Procs :
        LET l == race.proc[p]
        IN  (/\ l.op = "chat"
             /\ l.action # None
             /\ l.pc = "update"
             /\ RaceFile.kind = "session"
             /\ RaceFile.data.pending_action = l.action) =>
                /\ RaceFile.data.domain = l.domain
                /\ RaceFile.data.messages # << >>
                /\ RaceFile.data.messages[Len(RaceFile.data.messages) - 1] =
                        Message("user", l.user_msg)

----------------------------------------------------------------------------
(* Properties of a resolution whose domain has no executor (Spec) *)

\* the resolution found a pending action and the session's last active domain
\* is none of the seven domains with an executor
ResolvesWithoutExecutor ==
    /\ last.op = "resolve_action"
    /\ PreSession.pending_action # None
    /\ PreSession.domain \notin DomainsWithHandler

\* C28: when the session's last active domain has no tool executor,
\* handle_resolve_action returns the explicit text naming that domain, with
\* that domain, runs no tool, calls no provider and appends nothing to the
\* session's messages.
C28_NoExecutorExplicitText ==
    ResolvesWithoutExecutor =>
        /\ last.response = NoExecTool(PreSession.domain)
        /\ last.domain = PreSession.domain
        /\ last.execs = << >>
        /\ ~last.llm
        /\ PostFile.kind = "session"
        /\ PostFile.data.messages = PreSession.messages
        /\ PostFile.data.domain = PreSession.domain

\* C28 witness: a button press on a session whose domain is empty: the pending
\* action was stored by a turn that never wrote a domain
C28_EmptyDomainPress ==
    /\ ResolvesWithoutExecutor
    /\ PreSession.domain = ""
    /\ last.response = NoExecTool("")

----------------------------------------------------------------------------
(* Requests over the session store and the rule store
   (assistant.py, domains/*.py, core/memory.py) *)

\* the requests explored: the two that end in an error before a handler is
\* looked up or called, and turns that reach a report, an agent loop or the
\* handler's own test for an empty message
RuleTurnArgs ==
    {Arg("router", EmptyStr, "chat"), Arg("router", Hello, "chat"),
     Arg("nowhere", Hello, "chat"), Arg("finance", Hello, "chat"),
     Arg("finance", EmptyStr, "chat"), Arg("travel", Hello, "weekly_expense")}

\* the rule the agent loop may be told to learn during a turn
Learnable == {None, Some(RuleText(2))}

\* a variant that renders the finance rules for a request that reaches no
\* agent loop
HandlerMemoryEager(memory, domain, h, learn) ==
    IF h.kind # "agent"
    THEN get_rules_as_prompt(memory, "finance").memory
    ELSE LET rendered == get_rules_as_prompt(memory, domain).memory
         IN  IF learn = None THEN rendered
             ELSE add_rule(rendered, domain, learn[1], "general").memory

\* the rule store a handler leaves: a handler that reaches its agent loop
\* renders the learned rules, and the loop may learn one more
HandlerMemory(memory, domain, h, learn) ==
    IF h.kind # "agent"
    THEN memory
    ELSE LET rendered == get_rules_as_prompt(memory, domain).memory
         IN  IF learn = None THEN rendered
             ELSE add_rule(rendered, domain, learn[1], "general").memory

\* one request: invoke_assistant and, inside it, the handler's use of the rules
RuleTurn ==
    /\ Idle
    /\ loop.pc = "idle"
    /\ \A d \in MemoryDomains : \A i \in 1..Len(loop.memory[d]) :
            loop.memory[d][i].used_count < MaxUses
    /\ \E a \in RuleTurnArgs, learn \in Learnable :
        LET p == TurnRequest(K1, PairsTtl, a)
        IN  \E ch \in TurnChoices(p) :
                LET domain == RoutedDomain(store, now, p, ch[1])
                IN  /\ ch[2] # NoResult => domain \in MemoryDomains
                    /\ learn # None => ch[2].kind = "agent"
                    /\ TurnEffect(p, ch[1], ch[2])
                    /\ loop' = IdleLoop(HandlerMemory(loop.memory, domain, ch[2], learn))
                    /\ call' = [NoCall EXCEPT !.op = "turn", !.domain = domain,
                                              !.before = loop.memory]
                    /\ UNCHANGED <<now, window, race, writers, shown>>

NextTurns ==
    \/ RuleTurn
    \/ Return

SpecTurns == Init /\ [][NextTurns]_vars

----------------------------------------------------------------------------
(* Properties of a request that ends in an error (SpecTurns) *)

\* the request just served, with the rule store as it was before it
TurnServed == last.op = "chat" /\ call.op = "turn"

NothingWritten ==
    /\ store = last.pre
    /\ loop.memory = call.before
    /\ last.response = EmptyStr
    /\ last.interactive = None
    /\ ~last.llm

\* C29: a turn that names a domain with no handler ends in the "Unknown domain"
\* error, and a router turn with an empty message ends in the router's error;
\* neither writes the session store or the rule store, and so does no turn
\* that ends in one of the two errors.
C29_ErrorTurnsWriteNothing ==
    TurnServed =>
        /\ last.domain_arg \notin DomainsWithHandler \cup {"router"} =>
                /\ last.outcome = "unknown_domain"
                /\ last.domain = last.domain_arg
        /\ (last.domain_arg = "router" /\ last.message = EmptyStr) =>
                last.outcome = "router_needs_message"
        /\ last.outcome \in {"unknown_domain", "router_needs_message"} =>
                NothingWritten

\* C29 witness: an unknown domain is named while the session holds a pair and
\* a pending action and the rule store holds a learned rule that has been
\* rendered
C29_UnknownOverLiveStores ==
    /\ TurnServed
    /\ last.domain_arg = "nowhere"
    /\ last.outcome = "unknown_domain"
    /\ PreSession.messages # << >>
    /\ PreSession.pending_action # None
    /\ \E i \in 1..Len(loop.memory["finance"]) :
            loop.memory["finance"][i].used_count > 0

----------------------------------------------------------------------------
(* Properties of an answer that names several domains (SpecClassify) *)

\* the provider's answer as classify_domain scans it
AnswerText == LowerText(StripText(Get(call.content, << >>)))

\* where a name first occurs in a text that contains it
FirstIndex(text, part) ==
    CHOOSE i \in 0..(Len(text) - Len(part)) :
        /\ SubSeq(text, i + 1, i + Len(part)) = part
        /\ \A j \in 0..(i - 1) : SubSeq(text, j + 1, j + Len(part)) # part

\* the named domains none of which occurs earlier in the answer
FirstNamed ==
    {d \in Named : \A e \in Named :
        FirstIndex(AnswerText, DomainText(d)) <= FirstIndex(AnswerText, DomainText(e))}

\* C30: when the provider's lower-cased answer holds more than one name of the
\* valid set, classify_domain returns the name that occurs first in the answer.
C30_FirstNamedWins ==
    (call.op = "classify_domain" /\ call.provider_calls = 1
        /\ Cardinality(Named) > 1) =>
            call.domain \in FirstNamed

----------------------------------------------------------------------------
(* Properties of get_session as a read (SpecDamaged) *)

\* the read found a record that is expired, or a file that holds no JSON
\* object: text that does not parse, or another JSON value
ReadFoundStale ==
    \/ PreFile.kind \in {"torn", "not_object"}
    \/ PreFile.kind = "session" /\ _is_expired(last.at, PreFile.data, last.ttl)

\* C31: get_session never writes the store; a read that finds the record
\* expired or corrupt returns a fresh empty session and the stored record stays
\* as it was.
C31_PureRead ==
    last.op = "get_session" =>
        /\ store = last.pre
        /\ ReadFoundStale =>
                /\ last.outcome = "ok"
                /\ EmptySessionShape(last.ret_session)

----------------------------------------------------------------------------
(* Properties of a turn whose provider request fails (SpecFailing) *)

\* the answer just handled is a failed request's: sentinel first, no tool calls
ErrorAnswered ==
    /\ Answered
    /\ StartsWithSentinel(loop.answer)
    /\ loop.answer.tool_calls = << >>

\* what both readings of C32 say beside the response text: the turn ends in
\* this round without an interactive payload, nothing is executed or learned
\* in it, and what earlier rounds learned is handed back
C32_Effects ==
    /\ loop.pc = "returned"
    /\ loop.result.interactive = None
    /\ loop.executed_round = << >>
    /\ loop.memory = loop.memory_before
    /\ loop.result.learning_events = loop.learning_events

\* C32 as stated: the response is the error text itself
C32_Original ==
    ErrorAnswered =>
        /\ C32_Effects
        /\ loop.result.response = loop.answer.content[1]

\* C32 amended: when the provider returns sentinel-prefixed error content with
\* no tool calls in any round, the turn ends in that round, without raising,
\* with interactive = None and with that text less its markdown emphasis marks
\* as the response (the underscores of CERTIFICATE_VERIFY_FAILED go); no
\* further provider or executor call is made and the learning events and tool
\* effects of earlier rounds are kept.
C32_ErrorEndsTurn ==
    ErrorAnswered =>
        /\ C32_Effects
        /\ loop.answer = MarkedError =>
                loop.result.response =
                    Str(<<ErrorSentinel, "CERTIFICATE", "VERIFY", "FAILED">>, 10 + 23)
        /\ loop.answer # MarkedError =>
                loop.result.response = loop.answer.content[1]

\* C32 witness: the request fails in the second round, after a round that ran
\* a tool and learned a rule, and the error text loses its underscores
C32_FailsAfterToolRound ==
    /\ ErrorAnswered
    /\ loop.provider_calls = 2
    /\ loop.answer = MarkedError
    /\ loop.executed # << >>
    /\ loop.result.learning_events # << >>
    /\ loop.result.response # loop.answer.content[1]

----------------------------------------------------------------------------
(* Processes calling core/memory.py at the same time: each call loads
   data/memory.json, changes its copy, opens the file for writing, which
   empties it, and dumps its copy (core/memory.py) *)

LateRule == Str(<<"late rule">>, 9)

\* the add_rule calls made at the same time: a text the document may hold, and
\* a new text for each of two domains
WriterArgs ==
    {[domain |-> "finance", text |-> RuleText(1)],
     [domain |-> "finance", text |-> LateRule],
     [domain |-> "travel", text |-> LateRule]}

\* the lengths of the finance list the concurrent calls start from: empty,
\* one short of full, and full
StartLevels == {0, MAX_RULES_PER_DOMAIN - 1, MAX_RULES_PER_DOMAIN}

\* another process is inside a call
OthersBusy(p) == \E q \in Procs \ {p} : writers.proc[q].pc # "idle"

\* a first concurrent call may start, or others have started already
MayStart(p) ==
    /\ writers.proc[p].pc = "idle"
    /\ writers.started < MaxRuleCalls
    /\ writers.started = 0 => Len(loop.memory["finance"]) \in StartLevels

GotoWriter(p, l) == [writers EXCEPT !.proc[p] = l]

\* before any concurrent call starts, one process calls add_rule with a new
\* text, again and again until the finance list is full
Prefill ==
    /\ writers.started = 0
    /\ loop.pc = "idle"
    /\ Len(loop.memory["finance"]) < MAX_RULES_PER_DOMAIN
    /\ loop' = IdleLoop(add_rule(loop.memory, "finance",
                                 RuleText(Len(loop.memory["finance"]) + 1),
                                 "general").memory)
    /\ UNCHANGED <<store, now, appended, last, window, race, call, writers, shown>>

\* add_rule up to _save_memory: load, the duplicate test, append and cut
\* (memory.py 48-67); a duplicate returns without saving
AddRuleLoad(p) ==
    /\ MayStart(p)
    /\ \E a \in WriterArgs :
        LET r == add_rule(loop.memory, a.domain, a.text, "general")
        IN  writers' =
                [GotoWriter(p, IF r.saved
                               THEN [IdleWriter EXCEPT !.pc = "save", !.op = "add_rule",
                                                       !.domain = a.domain,
                                                       !.text = a.text,
                                                       !.memory = r.memory]
                               ELSE IdleWriter)
                    EXCEPT !.started = @ + 1, !.overlapped = @ \/ OthersBusy(p)]
    /\ UNCHANGED <<store, now, appended, last, window, race, loop, call, shown>>

\* rules.pop(rule_index) when 0 <= rule_index < len(rules)
pop_rule(rules, rule_index) ==
    IF 0 <= rule_index /\ rule_index < Len(rules)
    THEN SubSeq(rules, 1, rule_index) \o SubSeq(rules, rule_index + 2, Len(rules))
    ELSE rules

\* remove_rule up to _save_memory (memory.py 82-85); an invalid index returns
\* without saving
RemoveRuleLoad(p) ==
    /\ MayStart(p)
    /\ \E rule_index \in {0, 1} :
        LET rules == loop.memory["finance"]
            valid == 0 <= rule_index /\ rule_index < Len(rules)
        IN  writers' =
                [GotoWriter(p, IF valid
                               THEN [IdleWriter EXCEPT
                                        !.pc = "save", !.op = "remove_rule",
                                        !.domain = "finance",
                                        !.memory = [loop.memory EXCEPT !["finance"] =
                                                        pop_rule(rules, rule_index)]]
                               ELSE IdleWriter)
                    EXCEPT !.started = @ + 1, !.overlapped = @ \/ OthersBusy(p)]
    /\ UNCHANGED <<store, now, appended, last, window, race, loop, call, shown>>

\* get_rules_as_prompt up to its own load: get_rules has loaded the document
\* and the lines are built (memory.py 115-123); no rules, no bump
PromptRules(p) ==
    /\ MayStart(p)
    /\ \E domain \in {"finance", "travel"} :
        writers' =
            [GotoWriter(p, IF get_rules(loop.memory, domain) = << >>
                           THEN IdleWriter
                           ELSE [IdleWriter EXCEPT !.pc = "bump",
                                                   !.op = "get_rules_as_prompt",
                                                   !.domain = domain])
                EXCEPT !.started = @ + 1, !.overlapped = @ \/ OthersBusy(p)]
    /\ UNCHANGED <<store, now, appended, last, window, race, loop, call, shown>>

\* the second load of get_rules_as_prompt and the bumps (memory.py 125-131)
PromptBump(p) ==
    LET l == writers.proc[p]
        own == [loop.memory EXCEPT ![l.domain] = Bump(@)]
    IN  /\ l.pc = "bump"
        /\ \A d \in MemoryDomains : \A i \in 1..Len(loop.memory[d]) :
                loop.memory[d][i].used_count < MaxUses
        /\ writers' = GotoWriter(p, [l EXCEPT !.pc = "save",
                                              !.memory = [own EXCEPT !["global"] = Bump(@)]])
        /\ UNCHANGED <<store, now, appended, last, window, race, loop, call, shown>>

\* _save_memory: open(MEMORY_PATH, 'w') empties the file (memory.py 34); a
\* reader that finds it empty gets the document without rules (lines 28-30)
OpenMemory(p) ==
    LET l == writers.proc[p]
    IN  /\ l.pc = "save"
        /\ loop' = IdleLoop(EmptyMemory)
        /\ writers' = GotoWriter(p, [l EXCEPT !.pc = "dump", !.overwritten = FALSE])
        /\ UNCHANGED <<store, now, appended, last, window, race, call, shown>>

\* the domains whose lists a call is meant to change
Targets(l) ==
    IF l.op = "get_rules_as_prompt" THEN {l.domain, "global"} ELSE {l.domain}

\* _save_memory: json.dump writes the process's copy from the start of the
\* file (memory.py 35). If another process has written since this one opened
\* the file, the shorter text leaves the other's tail behind it and the file
\* no longer parses: readers then get the document without rules.
DumpMemory(p) ==
    LET l == writers.proc[p]
    IN  /\ l.pc = "dump"
        /\ \E written \in {l.memory} \cup (IF l.overwritten THEN {EmptyMemory} ELSE {}) :
            LET held(a) == a[2] \in RuleTexts(written[a[1]])
                mine == IF l.op = "add_rule" /\ written = l.memory
                        THEN {<<l.domain, l.text>>} ELSE {}
            IN  /\ loop' = IdleLoop(written)
                /\ writers' =
                    [writers EXCEPT
                        !.proc = [q \in Procs |->
                                    IF q = p THEN IdleWriter
                                    ELSE IF @[q].pc = "dump"
                                    THEN [@[q] EXCEPT !.overwritten = TRUE]
                                    ELSE @[q]],
                        !.added = {a \in @ : held(a)} \cup mine,
                        !.lost = @ \cup {[rule |-> a, op |-> l.op, domain |-> l.domain] :
                                            a \in {b \in writers.added :
                                                    /\ ~held(b)
                                                    /\ b[1] \notin Targets(l)}}]
        /\ UNCHANGED <<store, now, appended, last, window, race, call, shown>>

NextWriters ==
    \/ Prefill
    \/ \E p \in Procs :
        \/ AddRuleLoad(p)
        \/ RemoveRuleLoad(p)
        \/ PromptRules(p)
        \/ PromptBump(p)
        \/ OpenMemory(p)
        \/ DumpMemory(p)

SpecWriters == Init /\ [][NextWriters]_vars

----------------------------------------------------------------------------
(* Properties of the rule document under concurrent calls (SpecWriters) *)

\* no two rules of a list have the same text, and the list holds at most
\* MAX_RULES_PER_DOMAIN rules
WellFormedRules(rules) ==
    /\ Len(rules) <= MAX_RULES_PER_DOMAIN
    /\ \A i, j \in 1..Len(rules) : i # j => rules[i].text # rules[j].text

\* C33: in every reachable state of the rule document, under any sequence and
\* interleaving of add_rule, remove_rule and get_rules_as_prompt calls from an
\* empty document, no domain list holds two rules with the same text and none
\* holds more than 50 rules.
C33_UniqueAndCapped ==
    \A d \in MemoryDomains : WellFormedRules(loop.memory[d])

\* C33 witness: two add_rule calls ran at the same time on a full list; both
\* have returned and the list is full, with the new rule at its end
C33_FullListAfterRace ==
    /\ \A p \in Procs : writers.proc[p].pc = "idle"
    /\ writers.overlapped
    /\ <<"finance", LateRule>> \in writers.added
    /\ Len(loop.memory["finance"]) = MAX_RULES_PER_DOMAIN
    /\ loop.memory["finance"][MAX_RULES_PER_DOMAIN].text = LateRule
    /\ loop.memory["finance"][1].text = RuleText(2)

----------------------------------------------------------------------------
(* Properties of an answer with several learn_rule calls (SpecLoop) *)

\* C34: every learn_rule call of an answer is consumed: each is applied to Rule
\* Memory and each yields one learning event, so after the first answer of a
\* turn there are as many learning events as the answer has learn_rule calls
\* and every rule named in one of them is stored.
C34_EveryLearnCallConsumed ==
    (Answered /\ loop.provider_calls = 1) =>
        /\ Len(loop.learning_events) = Len(CallsNamed(LEARN_RULE))
        /\ \A i \in 1..Len(CallsNamed(LEARN_RULE)) :
            Get(CallsNamed(LEARN_RULE)[i].arguments.rule, EmptyStr)
                \in RuleTexts(loop.memory[LearnTarget])

----------------------------------------------------------------------------
(* Choice requests and the clicks that answer them (core/openai_client.py,
   assistant.py, server.py): a request is shown as buttons, one for each
   option; a click sends the option's text, the user and the channel *)

\* what a request_user_choice call hands to the chat surface and to the
\* session: the options (at most five) and the pending action
ChoiceRequest(options, pending_action) ==
    [options |-> TakeOptions(options), pending_action |-> pending_action]

DayRequest == ChoiceRequest(<<Str(<<"mon">>, 3), Str(<<"tue">>, 3)>>, PA1)

RoomRequest ==
    ChoiceRequest(<<Str(<<"red room">>, 8), Str(<<"blue room">>, 9)>>,
                  [tool |-> <<"reserve">>, args |-> Dict(AbsentVal, Str(<<"tue">>, 3)),
                   field_name |-> "title"])

ChoiceRequests == {DayRequest, RoomRequest}

\* the domains whose chat turns end in a choice request
ChoiceDomains == {"finance", "travel"}

\* a chat turn sent to a domain by name whose agent loop ends in a
\* request_user_choice call: the request is stored and shown
ChoiceTurn ==
    /\ Idle
    /\ \E d \in ChoiceDomains, request \in ChoiceRequests, ttl \in TTLs :
        /\ TurnEffect(TurnRequest(K1, ttl, Arg(d, Hello, "chat")), "schedule",
                      HandlerResult("agent", RShort, Some(request.pending_action), TRUE))
        /\ shown' = [buttons |-> shown.buttons \cup {request}, creator |-> d]
    /\ UNCHANGED <<now, window, race, loop, call, writers>>

\* the turns that ask for no choice: sent to a domain by name, or to the router
PlainArgs ==
    {Arg("finance", Hello, "chat"), Arg("travel", Hello, "chat"),
     Arg("travel", Hello, "dday_reminder"), Arg("router", Hello, "chat")}

\* a turn whose handler answers without a choice request
PlainTurn ==
    /\ Idle
    /\ \E a \in PlainArgs, ttl \in TTLs :
        \E ch \in TurnChoices(TurnRequest(K1, ttl, a)) :
            /\ ch[2].interactive = None
            /\ ch[2].response = RShort
            /\ TurnEffect(TurnRequest(K1, ttl, a), ch[1], ch[2])
    /\ UNCHANGED <<now, window, race, loop, call, writers, shown>>

\* the user clicks one of the buttons shown so far, of the latest request or
\* of an earlier one: resolve_action with the option's text
Click ==
    /\ Idle
    /\ \E request \in shown.buttons, ttl \in TTLs :
        \E i \in 1..Len(request.options) :
            LET r == handle_resolve_action(store, now, request.options[i], K1, ttl, RShort)
            IN  /\ store' = r.store
                /\ appended' = appended + Len(r.execs)
                /\ last' = [Request("resolve_action", K1, ttl) EXCEPT
                                !.value = request.options[i], !.tool_result = RShort,
                                !.response = r.response,
                                !.domain = r.domain, !.execs = r.execs, !.llm = r.llm]
    /\ UNCHANGED <<now, window, race, loop, call, writers, shown>>

NextButtons ==
    \/ Tick
    \/ Return
    \/ ChoiceTurn
    \/ PlainTurn
    \/ Click

SpecButtons == Init /\ [][NextButtons]_vars

----------------------------------------------------------------------------
(* Properties of the value a click fills in (SpecButtons) *)

\* the options that were offered with a pending action
OptionsOffered(pending_action) ==
    UNION {{request.options[i] : i \in 1..Len(request.options)} :
            request \in {q \in ChoiceRequests : q.pending_action = pending_action}}

\* C35: the value handle_resolve_action writes into args[field_name] is one of
\* the options offered for the pending action it resolves; a click on a button
\* of an earlier, overwritten request never fills the field of a later
\* pending action.
C35_ValueWasOffered ==
    (last.op = "resolve_action" /\ last.execs # << >>) =>
        LET action == PreSession.pending_action[1]
        IN  last.execs[1].args[action.field_name] \in OptionsOffered(action)

\* C36: a pending action is executed by the tool executor of the domain whose
\* turn created it, whatever turns the session key saw between its creation
\* and its resolution.
C36_ExecutedByItsCreator ==
    (last.op = "resolve_action" /\ last.execs # << >>) =>
        last.execs[1].domain = shown.creator

\* C37: under concurrent calls, a rule added by a successful add_rule for one
\* domain is never removed by an add_rule for another domain, or by a
\* get_rules_as_prompt that builds another domain's prompt.
C37_OtherDomainsKeepRules ==
    \A x \in writers.lost : x.op \notin {"add_rule", "get_rules_as_prompt"}

----------------------------------------------------------------------------
(* Properties of a click after the session's time to live (Spec) *)

\* the stored session holds a pending action and more than ttl minutes have
\* passed since the session was last written
ClickAfterTtl ==
    /\ last.op = "resolve_action"
    /\ PreFile.kind = "session"
    /\ PreFile.data.pending_action # None
    /\ last.at - PreFile.data.updated_at > last.ttl

\* C38: a pending action expires with its session: a handle_resolve_action
\* called with ttl more than ttl minutes after the last write to the session
\* returns the nothing-to-resolve reply and executes no tool.
C38_PendingExpires ==
    ClickAfterTtl =>
        /\ last.response = NothingPending
        /\ last.execs = << >>

\* C38 witness: a click in the first minute after the time to live is refused
\* and the file still holds the pending action
C38_RefusedInFirstLateMinute ==
    /\ ClickAfterTtl
    /\ last.at - PreFile.data.updated_at = last.ttl + 1
    /\ last.execs = << >>
    /\ PostFile.data.pending_action = PreFile.data.pending_action

----------------------------------------------------------------------------
(* Properties of the tool results of a turn's last round (SpecLoop) *)

\* C39: every tool result chat_with_tools_multi appends to the running message
\* list is in the messages of a later provider call of the same turn: when the
\* turn returns, no executed tool's result is left unsent.
C39_ToolResultsReachTheModel ==
    loop.pc = "returned" =>
        \A i \in 1..Len(loop.full_messages) :
            loop.full_messages[i].role = "tool" => i <= Len(loop.sent)

----------------------------------------------------------------------------
(* Properties of the session after a resolution without executor (Spec) *)

\* C40: a resolution that fails because the domain's executor cannot be
\* resolved leaves the session as it was before the call: the pending action
\* is still stored, so a later handle_resolve_action can obtain it.
C40_FailedResolutionKeepsPending ==
    ResolvesWithoutExecutor =>
        /\ store = last.pre
        /\ get_session(store, last.at, last.key, last.ttl).pending_action =
                PreSession.pending_action

====
